---- MODULE Spec2Model ----
(***************************************************************************)
(* RetroSnap credit-metering gateway.                                      *)
(*                                                                         *)
(* Server handlers of the repository are modelled, each as the request     *)
(* state machine its code implements:                                      *)
(*   "blobs" : the handler that keeps balances in the Netlify blob store   *)
(*             'retrosnap_credits', keyed by the Auth0 subject, and        *)
(*             deducts inside the :generateContent route;                  *)
(*   "kv"    : the first handler of netlify/functions/api-proxy.ts, which  *)
(*             keeps balances in the KV store "credits", keyed by email,   *)
(*             with the /credits and admin/ routes;                        *)
(*   "relay" : the second handler of that file, which posts every request  *)
(*             to the model API and relays the parsed answer.              *)
(* One of them is deployed (variable gateway).  Every await in a handler   *)
(* is a step boundary: concurrent invocations interleave at their awaits.  *)
(* A field of the inbound event is drawn when the handler first reads it.  *)
(*                                                                         *)
(* The browser's service (services/geminiService.ts) is modelled as the    *)
(* caller of a gateway: a run with gateway = "browser" exercises           *)
(* callApiWithFetchAndRetry and deductUserCredit against the answers the   *)
(* handlers give.                                                          *)
(***************************************************************************)
EXTENDS Integers, Sequences, FiniteSets, TLC

(* ------------------------------ bounds -------------------------------- *)
\* number of handler invocations of one run
NumReqs == 2
\* largest balance a store holds before the run starts
MaxInitCredits == 1
\* largest amount an admin add-credits body carries
MaxAmount == 1

Reqs == 1..NumReqs

(* --------------------------- program constants ------------------------ *)
INITIAL_CREDITS == 10
KV_INITIAL_CREDITS == 3
DEV_CREDITS == 999
MOCK_GET_CREDITS == 3
MOCK_POST_CREDITS == 2
MOCK_ADD_CREDITS == 10

(* ------------------------------ strings ------------------------------- *)
\* A JavaScript string whose characters matter is a sequence of characters.
Digit == <<"0", "1", "2", "3", "4", "5", "6", "7", "8", "9">>
UpperChars == <<"A", "B", "C", "D", "E", "F", "G", "H", "I", "J", "K", "L", "M",
                "N", "O", "P", "Q", "R", "S", "T", "U", "V", "W", "X", "Y", "Z">>
LowerChars == <<"a", "b", "c", "d", "e", "f", "g", "h", "i", "j", "k", "l", "m",
                "n", "o", "p", "q", "r", "s", "t", "u", "v", "w", "x", "y", "z">>

\* the value a store returns for a key it does not hold
Undefined == <<"undefined">>
Null == <<"null">>
NaNStr == <<"N", "a", "N">>

IsDigit(c) == \E d \in 1..10 : Digit[d] = c
DigitVal(c) == (CHOOSE d \in 1..10 : Digit[d] = c) - 1

RECURSIVE DigitsOf(_)
DigitsOf(n) == IF n < 10 THEN <<Digit[n + 1]>>
               ELSE DigitsOf(n \div 10) \o <<Digit[(n % 10) + 1]>>

\* String(n) for an integer n
StringOf(n) == IF n < 0 THEN <<"-">> \o DigitsOf(0 - n) ELSE DigitsOf(n)

RECURSIVE SkipWs(_)
SkipWs(s) == IF s # <<>> /\ s[1] = " " THEN SkipWs(Tail(s)) ELSE s

RECURSIVE LeadingDigits(_)
LeadingDigits(s) == IF s # <<>> /\ IsDigit(s[1])
                    THEN <<s[1]>> \o LeadingDigits(Tail(s))
                    ELSE <<>>

RECURSIVE DigitsVal(_)
DigitsVal(d) == IF d = <<>> THEN 0
                ELSE 10 * DigitsVal(SubSeq(d, 1, Len(d) - 1)) + DigitVal(d[Len(d)])

Unsigned(s) == LET t == SkipWs(s)
               IN  IF t # <<>> /\ t[1] \in {"+", "-"} THEN Tail(t) ELSE t

\* isNaN(parseInt(s, 10)): no digit follows the optional blanks and sign
parseIntIsNaN(s) == LeadingDigits(Unsigned(s)) = <<>>

\* parseInt(s, 10), where it is a number
parseInt(s) == LET t == SkipWs(s)
                   v == DigitsVal(LeadingDigits(Unsigned(s)))
               IN  IF t # <<>> /\ t[1] = "-" THEN 0 - v ELSE v

toLowerCase(s) == [i \in 1..Len(s) |->
                     IF \E k \in 1..26 : UpperChars[k] = s[i]
                     THEN LowerChars[CHOOSE k \in 1..26 : UpperChars[k] = s[i]]
                     ELSE s[i]]

RECURSIVE DropTrailingWs(_)
DropTrailingWs(s) == IF s # <<>> /\ s[Len(s)] = " "
                     THEN DropTrailingWs(SubSeq(s, 1, Len(s) - 1))
                     ELSE s

trim(s) == DropTrailingWs(SkipWs(s))

(* ----------------------- identities and credentials ------------------- *)
\* An email address is kept as a string; Chars gives its characters to the
\* code that looks inside it (trim, toLowerCase, split).
AliceEmail == "al@x.ca"
\* the address the kv handler hardcodes as its administrator
AjEmail == "ajbatac@gmail.com"
\* the administrator's address as an identity provider may report it
AjMixedEmail == "AJBatac@Gmail.com"
DevEmail == "dev@example.com"
KvDevEmail == "admin@example.com"
\* the configured ADMIN_EMAIL of the blobs handler, as an operator types it
ConfiguredAdminEmail == " AJBatac@Gmail.com "
NoEmail == ""

Chars(email) ==
    CASE email = AliceEmail -> <<"a", "l", "@", "x", ".", "c", "a">>
      [] email = AjEmail ->
           <<"a", "j", "b", "a", "t", "a", "c", "@", "g", "m", "a", "i", "l",
             ".", "c", "o", "m">>
      [] email = AjMixedEmail ->
           <<"A", "J", "B", "a", "t", "a", "c", "@", "G", "m", "a", "i", "l",
             ".", "c", "o", "m">>
      [] email = DevEmail ->
           <<"d", "e", "v", "@", "e", "x", "a", "m", "p", "l", "e", ".", "c",
             "o", "m">>
      [] email = KvDevEmail ->
           <<"a", "d", "m", "i", "n", "@", "e", "x", "a", "m", "p", "l", "e",
             ".", "c", "o", "m">>
      [] email = "user1@example.com" ->
           <<"u", "s", "e", "r", "1", "@", "e", "x", "a", "m", "p", "l", "e",
             ".", "c", "o", "m">>
      [] email = "user2@example.com" ->
           <<"u", "s", "e", "r", "2", "@", "e", "x", "a", "m", "p", "l", "e",
             ".", "c", "o", "m">>
      [] email = ConfiguredAdminEmail ->
           <<" ", "A", "J", "B", "a", "t", "a", "c", "@", "G", "m", "a", "i",
             "l", ".", "c", "o", "m", " ">>
      [] OTHER -> <<>>

ADMIN_USERS == {AjEmail}

NoHeader == "absent"
DevToken == "Bearer dev-token"
BadToken == "Bearer expired"
AliceToken == "Bearer alice"
AdminToken == "Bearer aj"
AdminMixedToken == "Bearer AJ"
NoSubToken == "Bearer nosub"
NoEmailToken == "Bearer noemail"

Headers == {NoHeader, DevToken, BadToken, AliceToken, AdminToken,
            AdminMixedToken, NoSubToken, NoEmailToken}

StringClaim(v) == [type |-> "string", val |-> v]
MissingClaim == [type |-> "undefined"]

\* What the identity provider's /userinfo answers for a credential, when it
\* answers: ok is response.ok, email and sub are the claims of the JSON body.
UserInfo(authHeader) ==
    CASE authHeader = AliceToken ->
           [ok |-> TRUE, email |-> StringClaim(AliceEmail), sub |-> StringClaim("auth0|alice")]
      [] authHeader = AdminToken ->
           [ok |-> TRUE, email |-> StringClaim(AjEmail), sub |-> StringClaim("auth0|aj")]
      [] authHeader = AdminMixedToken ->
           [ok |-> TRUE, email |-> StringClaim(AjMixedEmail), sub |-> StringClaim("auth0|aj")]
      [] authHeader = NoSubToken ->
           [ok |-> TRUE, email |-> StringClaim(AliceEmail), sub |-> MissingClaim]
      [] authHeader = NoEmailToken ->
           [ok |-> TRUE, email |-> MissingClaim, sub |-> StringClaim("auth0|alice")]
      [] OTHER ->
           [ok |-> FALSE, email |-> MissingClaim, sub |-> MissingClaim]

NoUser == [email |-> NoEmail, id |-> "none"]
DevUser == [email |-> DevEmail, id |-> "auth0|dev-user-12345"]

\* keys of the blob store (Auth0 subjects) and of the KV store (emails)
BlobKeys == {"auth0|alice", "auth0|aj", "auth0|dev-user-12345"}
KvKeys == {AliceEmail, AjEmail, AjMixedEmail, KvDevEmail}

(* ----------------------------- environment ---------------------------- *)
Contexts == {"dev", "production", "unset"}

\* process.env: which required values are set, and the deploy CONTEXT
Envs == {e \in [AUTH0_DOMAIN : BOOLEAN, API_KEY : BOOLEAN,
                ADMIN_EMAIL : BOOLEAN, CONTEXT : Contexts] :
           \/ e.AUTH0_DOMAIN /\ e.API_KEY /\ e.ADMIN_EMAIL
           \/ /\ e.CONTEXT = "production"
              /\ Cardinality({k \in {"AUTH0_DOMAIN", "API_KEY", "ADMIN_EMAIL"} : ~e[k]}) = 1}

(* ------------------------------ responses ----------------------------- *)
NoResp == [statusCode |-> 0, body |-> [kind |-> "none"]]

jsonResponse(statusCode, body) == [statusCode |-> statusCode, body |-> body]

ErrorBody(msg) == [kind |-> "error", error |-> msg]

\* getErrorMessage(error) for the exception a catch block took: the message
\* of the failed fetch, of the store client, or of JSON.parse
getErrorMessage(caught) ==
    CASE caught = "userinfo" -> "fetch failed: idp"
      [] caught = "fetch" -> "fetch failed: model api"
      [] caught = "store" -> "store request failed"
      [] caught = "json" -> "Unexpected token in JSON"
      [] OTHER -> "KV Store not available in this environment."

\* an error body that carries the exception message beside the error text
DetailedErrorBody(msg, caught) ==
    [kind |-> "error", error |-> msg, details |-> getErrorMessage(caught)]

InvalidMask == <<"i", "n", "v", "a", "l", "i", "d", "-", "o", "r", "-", "m", "i",
                 "s", "s", "i", "n", "g", "-", "e", "m", "a", "i", "l">>

RECURSIVE UpToAt(_)
UpToAt(s) == IF s = <<>> \/ s[1] = "@" THEN <<>> ELSE <<s[1]>> \o UpToAt(Tail(s))

\* the part of s after its first '@' (empty when there is none)
AfterAt(s) == SubSeq(s, Len(UpToAt(s)) + 2, Len(s))

\* the address logged and returned as it is
maskEmail_Plain(email) == email

\* the mask without the branch for short local parts
maskEmail_ShortLocal(email) ==
    IF email = <<>> \/ \A i \in 1..Len(email) : email[i] # "@"
    THEN InvalidMask
    ELSE LET localPart == UpToAt(email)
             domain == UpToAt(AfterAt(email))
         IN  SubSeq(localPart, 1, IF Len(localPart) < 2 THEN Len(localPart) ELSE 2)
               \o <<".", ".", ".">>
               \o (IF localPart = <<>> THEN <<>> ELSE <<localPart[Len(localPart)]>>)
               \o <<"@">> \o domain

maskEmail(email) ==
    IF email = <<>> \/ \A i \in 1..Len(email) : email[i] # "@"
    THEN InvalidMask
    ELSE LET localPart == UpToAt(email)
             domain == UpToAt(AfterAt(email))
         IN  IF Len(localPart) <= 3
             THEN <<"*", "*", "*", "@">> \o domain
             ELSE SubSeq(localPart, 1, 2) \o <<".", ".", ".">>
                    \o <<localPart[Len(localPart)]>> \o <<"@">> \o domain

\* a console line of the blobs handler that names the user
LogLine(line, u) == [line |-> line, email |-> maskEmail(Chars(u.email))]

(* ------------------------------- state -------------------------------- *)
VARIABLES
    client,    \* per call of the browser's service: its position and outcome
    goc,       \* per call of getOrCreateUserCredits run on its own: its
               \* variant, key, position and result
    gocStore,  \* the store passed to those calls: key -> stored value
    session,   \* the UserProvider component: the auth hook's flags, its React
               \* state and its asynchronous runs in flight
    app,       \* the App page: its React state and the handler in progress
    gateway,   \* which handler is deployed: "blobs", "kv" or "relay"; "browser"
               \* when the run exercises the browser's service instead,
               \* "getOrCreate" when it exercises getOrCreateUserCredits,
               \* "provider" when it exercises the UserProvider component,
               \* "page" when the App page runs against the blobs handler
    env,       \* process.env of the deployment
    blobs,     \* blob store 'retrosnap_credits': subject -> stored string
    kv,        \* KV store "credits": email -> stored value, as parseInt reads it
    store0,    \* the two stores as they were when the run started
    pc,        \* per invocation: the await it is suspended at
    event,     \* per invocation: the fields of the HandlerEvent read so far
    user,      \* per invocation: the authenticated user
    local,     \* per invocation: the handler's local variables
    resp,      \* per invocation: the response returned
    calls      \* per invocation: external calls issued so far

vars == <<client, goc, gocStore, session, app, gateway, env, blobs, kv, store0, pc, event, user, local,
          resp, calls>>
\* what a handler invocation leaves alone besides the stores
front == <<client, goc, gocStore, session, app>>

Unread == "unread"
NoEvent == [authorization |-> Unread, path |-> Unread, httpMethod |-> Unread,
            body |-> [kind |-> Unread]]
\* credits, nan: the balance read (nan when it parsed to NaN); keys, users:
\* the admin listing in progress; caught: the exception a catch block took;
\* logged: the console lines of the invocation that carry an email, each
\* with the email as it was written
NoLocal == [credits |-> 0, nan |-> FALSE, keys |-> {}, users |-> {}, caught |-> "none",
            logged |-> {}]
NoCalls == [userinfo |-> 0, get |-> 0, set |-> 0, gemini |-> 0, list |-> 0]
\* a call of the browser's service: fn the function called, pc its position,
\* attempt the loop counter, fetches the requests sent, answer what the last
\* fetch settled with, error the message of the Error it threw, delay the
\* milliseconds of the last wait before a retry; behind the App page, idle
\* the invocations that had not started when the last request was sent and
\* served the invocations whose responses the call's fetches received
NoAnswer == [outcome |-> "none"]
NoClientCall == [fn |-> "none", pc |-> "idle", attempt |-> 0, fetches |-> 0,
                 answer |-> NoAnswer, error |-> <<>>, delay |-> 0,
                 idle |-> {}, served |-> {}]

(* The App page.  uploadedImage: whether a photo is uploaded;
   paidForCurrentImage: the flag of that name; run, pc: the handler in
   progress and the await it is suspended at; decade: the position of the
   loop over DECADES; atLeastOneSuccess: the handler's local of that name;
   served: the invocations whose responses the generations of the current
   upload received; generated: those of them whose response gave an image
   the page shows. *)
NoApp == [uploadedImage |-> FALSE, paidForCurrentImage |-> FALSE, run |-> "none",
          pc |-> "idle", decade |-> 0, atLeastOneSuccess |-> FALSE, served |-> {},
          generated |-> {}]

(* The UserProvider component.  variant: the file it is taken from; isMock:
   whether the dev auth hook is passed in; authLoading, isAuthenticated: the
   flags of the auth hook; credits, isAdmin, status: the React state (credits
   null is <<>>, credits n is <<n>>); chains: the asynchronous runs in
   flight, counted by kind (verify: the run of the initial effect, sync: a
   poll or manual refresh) and position (awaiting the token, awaiting the
   user data); adminFetched: a user-data fetch succeeded with isAdmin true;
   initialFailed: the last run of the initial effect ended in its catch
   block and no fetch has succeeded since; deducts: the deductCredit calls made. *)
Unknown == <<>>
NoChains == [verifyToken |-> 0, verifyFetch |-> 0, syncToken |-> 0, syncFetch |-> 0]
NoProvider == [variant |-> "none", isMock |-> FALSE, authLoading |-> FALSE,
               isAuthenticated |-> FALSE, credits |-> Unknown, isAdmin |-> FALSE,
               status |-> "pending", chains |-> NoChains, adminFetched |-> FALSE,
               initialFailed |-> FALSE, deducts |-> 0]
ProviderVariants == {"part_001", "part_000", "AuthContext"}
\* the data a user-data fetch may deliver
MaxFetchedCredits == 1
\* the asynchronous runs of the component in flight at once
MaxChains == 2
\* the deductCredit calls of one run
MaxDeducts == 2

\* the initial effect of the component, run after a render in which one of
\* its dependencies changed: the state it leaves, started run included
Effect(s) ==
    IF s.variant = "part_001"
    THEN IF s.isMock THEN [s EXCEPT !.status = "success"]
         ELSE IF s.authLoading THEN s
         ELSE IF ~s.isAuthenticated
         THEN [s EXCEPT !.credits = Unknown, !.isAdmin = FALSE, !.status = "success",
                        !.initialFailed = FALSE]
         ELSE [s EXCEPT !.status = "loading", !.chains.verifyToken = @ + 1,
                        !.initialFailed = FALSE]
    ELSE IF s.variant = "part_000"
    THEN IF s.isMock THEN [s EXCEPT !.status = "success"]
         ELSE IF s.authLoading THEN s
         ELSE [s EXCEPT !.status = "loading", !.chains.verifyToken = @ + 1,
                        !.initialFailed = FALSE]
    ELSE IF s.authLoading THEN [s EXCEPT !.status = "pending"]
         ELSE IF s.isAuthenticated
         THEN IF s.credits = Unknown
              THEN [s EXCEPT !.status = "loading", !.chains.verifyToken = @ + 1,
                             !.initialFailed = FALSE]
              ELSE s
         ELSE [s EXCEPT !.credits = Unknown, !.isAdmin = FALSE, !.status = "success",
                        !.initialFailed = FALSE]

\* whether a dependency of the initial effect differs between two renders
DepsChanged(old, new) ==
    \/ old.authLoading # new.authLoading
    \/ old.variant # "part_000" /\ old.isAuthenticated # new.isAuthenticated
    \/ old.variant = "AuthContext" /\ old.credits # new.credits

\* the state after the render that follows a change, effects included
Rendered(old, new) ==
    IF ~DepsChanged(old, new) THEN new
    ELSE LET e == Effect(new)
         IN  IF DepsChanged(new, e) THEN Effect(e) ELSE e

\* the component as useState initialises it and the first run of its effect
\* leaves it: under the auth hook of auth0-react (loading at first), or
\* under the dev hook of DevProvider
MountedProviders ==
    {Effect([NoProvider EXCEPT !.variant = v, !.authLoading = TRUE]) :
        v \in ProviderVariants}
      \cup {Effect([NoProvider EXCEPT !.variant = v, !.isMock = TRUE,
                                      !.isAuthenticated = TRUE, !.credits = <<99>>,
                                      !.isAdmin = TRUE]) : v \in ProviderVariants}

\* a call of getOrCreateUserCredits: storedValue what store.get returned,
\* result and nan the number returned (nan when it is NaN), writes the
\* store.set calls that completed
NoGocCall == [variant |-> "none", userId |-> "", pc |-> "idle",
              storedValue |-> <<>>, result |-> 0, nan |-> FALSE, writes |-> 0]

StoredBalances == {StringOf(n) : n \in 0..MaxInitCredits}
\* a value that is not a number
CorruptedValue == <<"a", "b", "c">>
GocKeys == {AliceEmail, AjEmail}

\* the blobs handler serves the requests: on its own or behind the App page
BlobsDeployed == gateway \in {"blobs", "page"}

Init ==
    /\ gateway \in {"blobs", "kv", "relay", "browser", "getOrCreate", "provider", "page"}
    /\ app = NoApp
    /\ session \in IF gateway = "provider" THEN MountedProviders ELSE {NoProvider}
    /\ client = [c \in Reqs |-> NoClientCall]
    /\ goc = [c \in Reqs |-> NoGocCall]
    /\ env \in IF gateway = "page" THEN {e \in Envs : /\ e.AUTH0_DOMAIN /\ e.API_KEY /\ e.ADMIN_EMAIL
                                                     /\ e.CONTEXT = "production"}
                ELSE Envs
    /\ \E a \in StoredBalances \cup {Undefined} :
          blobs = [k \in BlobKeys |->
                     IF gateway = "blobs" /\ k = "auth0|alice" THEN a
                     ELSE IF gateway = "page" /\ k = "auth0|alice"
                     THEN StringOf(INITIAL_CREDITS)
                     ELSE Undefined]
    /\ \E a \in StoredBalances \cup {Null} :
          kv = [k \in KvKeys |-> IF gateway = "kv" /\ k = AliceEmail
                                 THEN a ELSE Null]
    /\ \E a \in StoredBalances \cup {Null, CorruptedValue} :
          gocStore = [k \in GocKeys |-> IF gateway = "getOrCreate" /\ k = AliceEmail
                                        THEN a ELSE Null]
    /\ store0 = [blobs |-> blobs, kv |-> kv]
    /\ pc = [r \in Reqs |-> "idle"]
    /\ event = [r \in Reqs |-> NoEvent]
    /\ user = [r \in Reqs |-> NoUser]
    /\ local = [r \in Reqs |-> NoLocal]
    /\ resp = [r \in Reqs |-> NoResp]
    /\ calls = [r \in Reqs |-> NoCalls]

\* the invocation returns `response`
Return(r, response) ==
    /\ pc' = [pc EXCEPT ![r] = "done"]
    /\ resp' = [resp EXCEPT ![r] = response]

\* the invocation suspends at the await named p
Await(r, p) ==
    /\ pc' = [pc EXCEPT ![r] = p]
    /\ resp' = resp

Called(r, what) == calls' = [calls EXCEPT ![r][what] = @ + 1]

(* ===================== the "blobs" handler ============================ *)
BlobsRoutes == {[path |-> "/debug-info", httpMethod |-> "GET"],
                [path |-> "/user-data", httpMethod |-> "GET"],
                [path |-> "/v1beta/models/m:generateContent", httpMethod |-> "POST"],
                [path |-> "/v1beta/models/m:generateContent", httpMethod |-> "GET"]}

\* the requests that reach the handler: any, or behind the App page the
\* page's POST to :generateContent with the signed-in user's token
RequestRoutes ==
    IF gateway = "page"
    THEN {[path |-> "/v1beta/models/m:generateContent", httpMethod |-> "POST"]}
    ELSE BlobsRoutes
RequestHeaders == IF gateway = "page" THEN {AliceToken} ELSE Headers

includesGenerateContent(path) == path = "/v1beta/models/m:generateContent"

\* isAdmin of the blobs handler: ADMIN_EMAIL set and equal to the user's
\* email, both trimmed and lower-cased
isAdmin(u) ==
    /\ env.ADMIN_EMAIL
    /\ toLowerCase(trim(Chars(u.email))) = toLowerCase(trim(Chars(ConfiguredAdminEmail)))

debugInfo(u) ==
    [kind |-> "debugInfo",
     envVarValueMasked |-> maskEmail(Chars(ConfiguredAdminEmail)),
     userValue |-> u.email,
     matched |-> toLowerCase(trim(Chars(ConfiguredAdminEmail)))
                   = toLowerCase(trim(Chars(u.email)))]

\* The router of the blobs handler for the authenticated user u, up to its
\* first await: the route is read from the event, the synchronous routes
\* answer, the store routes issue their first get.
BlobsRouter(r, u, ev) ==
    \E rt \in RequestRoutes :
       /\ event' = [ev EXCEPT ![r].path = rt.path, ![r].httpMethod = rt.httpMethod]
       /\ user' = [user EXCEPT ![r] = u]
       /\ UNCHANGED <<blobs, kv>>
       /\ local' = [local EXCEPT ![r].logged = @ \cup {LogLine("[AUTH_CHECK]", u)}]
       /\ IF rt.path = "/debug-info" /\ rt.httpMethod = "GET"
          THEN /\ Return(r, jsonResponse(200, debugInfo(u)))
               /\ UNCHANGED calls
          ELSE IF rt.path = "/user-data" /\ rt.httpMethod = "GET"
          THEN /\ Await(r, "userData.get")
               /\ Called(r, "get")
          ELSE IF rt.httpMethod = "POST" /\ includesGenerateContent(rt.path)
          THEN /\ Await(r, "generate.get")
               /\ Called(r, "get")
          ELSE /\ Return(r, jsonResponse(404, ErrorBody("Not Found.")))
               /\ UNCHANGED calls

EnvMissingBody == ErrorBody("Server is not configured correctly. Missing required environment variables.")
MissingHeaderBody == ErrorBody("Unauthorized: Missing Authorization header.")
InvalidTokenBody == ErrorBody("Unauthorized: Invalid token.")
OutOfCreditsBody == ErrorBody("You are out of credits.")
AuthErrorBody == ErrorBody("An internal error occurred during authentication.")
\* the same with `details: getErrorMessage(error)`, as the blobs handler answers
BlobsAuthErrorBody == DetailedErrorBody("An internal error occurred during authentication.", "userinfo")
\* the catch block of /user-data
UserDataErrorBody == DetailedErrorBody("Failed to retrieve user credit data.", "store")

\* the check for a missing header left out
missingHeader_Never(authHeader) == FALSE

\* `!authHeader`
missingHeader(authHeader) == authHeader = NoHeader

\* the validation without the admin address
envMissing_NoAdminEmail(e) == ~e.AUTH0_DOMAIN \/ ~e.API_KEY

\* `!AUTH0_DOMAIN || !API_KEY || !ADMIN_EMAIL` of the blobs handler
envMissing(e) == ~e.AUTH0_DOMAIN \/ ~e.API_KEY \/ ~e.ADMIN_EMAIL

\* Entry of the blobs handler: environment validation, then authentication
\* up to the fetch of /userinfo; the development identity goes on to the
\* router at once.
BlobsHandler(r) ==
    /\ BlobsDeployed
    /\ pc[r] = "idle"
    /\ UNCHANGED <<front, gateway, env, store0>>
    /\ IF envMissing(env)
       THEN /\ Return(r, jsonResponse(500, EnvMissingBody))
            /\ UNCHANGED <<blobs, kv, event, user, local, calls>>
       ELSE \E authHeader \in RequestHeaders :
              LET isDevRequest == authHeader = DevToken /\ env.CONTEXT = "dev"
                  ev == [event EXCEPT ![r].authorization = authHeader]
              IN  IF isDevRequest
                  THEN BlobsRouter(r, DevUser, ev)
                  ELSE /\ event' = ev
                       /\ UNCHANGED <<blobs, kv, user, local>>
                       /\ IF missingHeader(authHeader)
                          THEN /\ Return(r, jsonResponse(401, MissingHeaderBody))
                               /\ UNCHANGED calls
                          ELSE /\ Await(r, "userinfo")
                               /\ Called(r, "userinfo")

\* the catch block of the authentication answering 401
BlobsUserInfo_Catch401(r) ==
    /\ BlobsDeployed
    /\ pc[r] = "userinfo"
    /\ UNCHANGED <<front, gateway, env, store0>>
    /\ LET userInfo == UserInfo(event[r].authorization)
       IN  \/ /\ Return(r, jsonResponse(401, InvalidTokenBody))
              /\ local' = [local EXCEPT ![r].caught = "userinfo"]
              /\ UNCHANGED <<blobs, kv, event, user, calls>>
           \/ IF ~userInfo.ok
              THEN /\ Return(r, jsonResponse(401, InvalidTokenBody))
                   /\ UNCHANGED <<blobs, kv, event, user, local, calls>>
              ELSE IF userInfo.email.type # "string" \/ userInfo.sub.type # "string"
              THEN /\ Return(r, jsonResponse(400, ErrorBody("User email or ID not found in token.")))
                   /\ UNCHANGED <<blobs, kv, event, user, local, calls>>
              ELSE BlobsRouter(r, [email |-> userInfo.email.val, id |-> userInfo.sub.val], event)

\* The fetch of /userinfo settles (or throws), and an accepted identity is
\* routed.
BlobsUserInfo(r) ==
    /\ BlobsDeployed
    /\ pc[r] = "userinfo"
    /\ UNCHANGED <<front, gateway, env, store0>>
    /\ LET userInfo == UserInfo(event[r].authorization)
       IN  \/ /\ Return(r, jsonResponse(500, BlobsAuthErrorBody))
              /\ local' = [local EXCEPT ![r].caught = "userinfo"]
              /\ UNCHANGED <<blobs, kv, event, user, calls>>
           \/ IF ~userInfo.ok
              THEN /\ Return(r, jsonResponse(401, InvalidTokenBody))
                   /\ UNCHANGED <<blobs, kv, event, user, local, calls>>
              ELSE IF userInfo.email.type # "string" \/ userInfo.sub.type # "string"
              THEN /\ Return(r, jsonResponse(400, ErrorBody("User email or ID not found in token.")))
                   /\ UNCHANGED <<blobs, kv, event, user, local, calls>>
              ELSE BlobsRouter(r, [email |-> userInfo.email.val, id |-> userInfo.sub.val], event)

\* one record for all users
creditsKey_Shared(u) == "auth0|alice"

\* the key of a user's record in the blob store: `user.id`
creditsKey(u) == u.id

\* /user-data: creditsStore.get(user.id) returns (or throws)
BlobsUserDataGet(r) ==
    /\ BlobsDeployed
    /\ pc[r] = "userData.get"
    /\ UNCHANGED <<front, gateway, env, store0, blobs, kv, event, user>>
    /\ LET creditsStr == blobs[creditsKey(user[r])]
       IN  \/ /\ Return(r, jsonResponse(500, UserDataErrorBody))
              /\ local' = [local EXCEPT ![r].caught = "store",
                     ![r].logged = @ \cup {LogLine("Error fetching credits", user[r])}]
              /\ UNCHANGED calls
           \/ IF creditsStr = Undefined
              THEN /\ local' = [local EXCEPT ![r].credits = INITIAL_CREDITS]
                   /\ Await(r, "userData.set")
                   /\ Called(r, "set")
              ELSE /\ local' = [local EXCEPT ![r].credits = parseInt(creditsStr),
                                             ![r].nan = parseIntIsNaN(creditsStr)]
                   /\ Return(r, jsonResponse(200,
                         [kind |-> "userData", isAdmin |-> isAdmin(user[r]),
                          credits |-> IF parseIntIsNaN(creditsStr) THEN Null
                                      ELSE parseInt(creditsStr)]))
                   /\ UNCHANGED calls

\* the new account stored with one credit less than the response reports
BlobsUserDataSet_StoresLess(r) ==
    /\ BlobsDeployed
    /\ pc[r] = "userData.set"
    /\ UNCHANGED <<front, gateway, env, store0, kv, event, user, calls>>
    /\ \/ /\ Return(r, jsonResponse(500, UserDataErrorBody))
          /\ local' = [local EXCEPT ![r].caught = "store",
                 ![r].logged = @ \cup {LogLine("Error fetching credits", user[r])}]
          /\ UNCHANGED blobs
       \/ /\ blobs' = [blobs EXCEPT ![creditsKey(user[r])] = StringOf(local[r].credits - 1)]
          /\ local' = [local EXCEPT
                 ![r].logged = @ \cup {LogLine("Initialized credits", user[r])}]
          /\ Return(r, jsonResponse(200,
                [kind |-> "userData", isAdmin |-> isAdmin(user[r]),
                 credits |-> local[r].credits]))

\* the initial grant added to whatever the store holds by then
BlobsUserDataSet_Accumulate(r) ==
    /\ BlobsDeployed
    /\ pc[r] = "userData.set"
    /\ UNCHANGED <<front, gateway, env, store0, kv, event, user, calls>>
    /\ \/ /\ Return(r, jsonResponse(500, UserDataErrorBody))
          /\ local' = [local EXCEPT ![r].caught = "store",
                 ![r].logged = @ \cup {LogLine("Error fetching credits", user[r])}]
          /\ UNCHANGED blobs
       \/ LET held == IF blobs[user[r].id] = Undefined THEN 0
                      ELSE parseInt(blobs[user[r].id])
          IN  /\ blobs' = [blobs EXCEPT ![user[r].id] = StringOf(held + local[r].credits)]
              /\ local' = [local EXCEPT
                     ![r].logged = @ \cup {LogLine("Initialized credits", user[r])}]
              /\ Return(r, jsonResponse(200,
                    [kind |-> "userData", isAdmin |-> isAdmin(user[r]),
                     credits |-> held + local[r].credits]))

\* /user-data: creditsStore.set(user.id, String(INITIAL_CREDITS)) returns
\* (or throws)
BlobsUserDataSet(r) ==
    /\ BlobsDeployed
    /\ pc[r] = "userData.set"
    /\ UNCHANGED <<front, gateway, env, store0, kv, event, user, calls>>
    /\ \/ /\ Return(r, jsonResponse(500, UserDataErrorBody))
          /\ local' = [local EXCEPT ![r].caught = "store",
                 ![r].logged = @ \cup {LogLine("Error fetching credits", user[r])}]
          /\ UNCHANGED blobs
       \/ /\ blobs' = [blobs EXCEPT ![creditsKey(user[r])] = StringOf(local[r].credits)]
          /\ local' = [local EXCEPT
                 ![r].logged = @ \cup {LogLine("Initialized credits", user[r])}]
          /\ Return(r, jsonResponse(200,
                [kind |-> "userData", isAdmin |-> isAdmin(user[r]),
                 credits |-> local[r].credits]))

ProxyErrorBody == ErrorBody("An internal error occurred while contacting the AI model.")
\* the catch block of the generation route of the blobs handler
BlobsProxyErrorBody(caught) ==
    DetailedErrorBody("An internal error occurred while contacting the AI model.", caught)

\* the balance check written as `credits < 0`
outOfCredits_Negative(credits, nan) == ~nan /\ credits < 0

\* `credits <= 0` of the generation route, false when credits is NaN
outOfCredits(credits, nan) == ~nan /\ credits <= 0

\* :generateContent: creditsStore.get(user.id) returns (or throws), and the
\* balance is checked
BlobsGenerateGet(r) ==
    /\ BlobsDeployed
    /\ pc[r] = "generate.get"
    /\ UNCHANGED <<front, gateway, env, store0, blobs, kv, event, user>>
    /\ LET stored == blobs[creditsKey(user[r])]
           creditsStr == IF stored = Undefined \/ stored = <<>> THEN <<"0">> ELSE stored
           nan == parseIntIsNaN(creditsStr)
           credits == parseInt(creditsStr)
       IN  \/ /\ Return(r, jsonResponse(500, BlobsProxyErrorBody("store")))
              /\ local' = [local EXCEPT ![r].caught = "store"]
              /\ UNCHANGED calls
           \/ /\ local' = [local EXCEPT ![r].credits = credits, ![r].nan = nan,
                     ![r].logged = IF outOfCredits(credits, nan)
                                   THEN @ \cup {LogLine("Request blocked", user[r])}
                                   ELSE @]
              /\ IF outOfCredits(credits, nan)
                 THEN /\ Return(r, jsonResponse(402, OutOfCreditsBody))
                      /\ UNCHANGED calls
                 ELSE /\ Await(r, "generate.set")
                      /\ Called(r, "set")

\* event.body of a generation request, as far as its image part goes: an
\* inlineData part {mimeType, data}, or a payload that is no such pair
Payloads == {[kind |-> "generate", image |-> "inlineData"],
             [kind |-> "generate", image |-> "malformed"]}

\* the balance written back as it was read
deducted_Nothing(credits) == credits

\* `credits - 1`, the balance the generation route writes back
deducted(credits) == credits - 1

\* :generateContent: creditsStore.set(user.id, String(credits - 1)) returns
\* (or throws), and the request is sent to the model API with event.body
\* as it came
BlobsGenerateSet(r) ==
    /\ BlobsDeployed
    /\ pc[r] = "generate.set"
    /\ UNCHANGED <<front, gateway, env, store0, kv, user>>
    /\ \/ /\ Return(r, jsonResponse(500, BlobsProxyErrorBody("store")))
          /\ local' = [local EXCEPT ![r].caught = "store"]
          /\ UNCHANGED <<blobs, calls, event>>
       \/ /\ \E body \in Payloads : event' = [event EXCEPT ![r].body = body]
          /\ blobs' = [blobs EXCEPT ![creditsKey(user[r])] =
                         IF local[r].nan THEN NaNStr
                         ELSE StringOf(deducted(local[r].credits))]
          /\ local' = [local EXCEPT
                 ![r].logged = @ \cup {LogLine("Credit deducted", user[r])}]
          /\ Await(r, "generate.fetch")
          /\ Called(r, "gemini")

\* what the model API answers, when it answers
GeminiResponses == {[ok |-> TRUE, status |-> 200, text |-> "candidates"],
                    [ok |-> FALSE, status |-> 400, text |-> "bad prompt"],
                    [ok |-> FALSE, status |-> 503, text |-> "overloaded"]}

GeminiBody(text) == [kind |-> "gemini", text |-> text]

\* The characters of the bodies the model API sends: a compact JSON
\* document, a JSON error document laid out with white space, and the plain
\* text of an overloaded front end, which is not JSON.
TextChars(text) ==
    CASE text = "candidates" -> <<"{", "}">>
      [] text = "bad prompt" -> <<"{", " ", "}">>
      [] text = "overloaded" -> <<"<", "5", "0", "3", ">">>
      [] OTHER -> <<>>

\* the credit given back when the model API fails
BlobsGenerateFetch_Refund(r) ==
    /\ BlobsDeployed
    /\ pc[r] = "generate.fetch"
    /\ UNCHANGED <<front, gateway, env, store0, kv, event, user, calls>>
    /\ \/ /\ Return(r, jsonResponse(500, BlobsProxyErrorBody("fetch")))
          /\ local' = [local EXCEPT ![r].caught = "fetch"]
          /\ blobs' = [blobs EXCEPT ![user[r].id] = StringOf(local[r].credits)]
       \/ /\ \E geminiResponse \in GeminiResponses :
               /\ Return(r, [statusCode |-> geminiResponse.status,
                             body |-> GeminiBody(geminiResponse.text)])
               /\ blobs' = IF geminiResponse.ok THEN blobs
                           ELSE [blobs EXCEPT ![user[r].id] = StringOf(local[r].credits)]
          /\ UNCHANGED local

\* :generateContent: the fetch of the model API settles (or throws) and its
\* answer is relayed
BlobsGenerateFetch(r) ==
    /\ BlobsDeployed
    /\ pc[r] = "generate.fetch"
    /\ UNCHANGED <<front, gateway, env, store0, blobs, kv, event, user, calls>>
    /\ \/ /\ Return(r, jsonResponse(500, BlobsProxyErrorBody("fetch")))
          /\ local' = [local EXCEPT ![r].caught = "fetch"]
       \/ /\ \E geminiResponse \in GeminiResponses :
               Return(r, [statusCode |-> geminiResponse.status,
                          body |-> GeminiBody(geminiResponse.text)])
          /\ UNCHANGED local

BlobsNext ==
    \E r \in Reqs :
       \/ BlobsHandler(r)
       \/ BlobsUserInfo(r)
       \/ BlobsUserDataGet(r)
       \/ BlobsUserDataSet(r)
       \/ BlobsGenerateGet(r)
       \/ BlobsGenerateSet(r)
       \/ BlobsGenerateFetch(r)

(* ======================= the "kv" handler ============================= *)
KvRoutes == {[path |-> "admin/users", httpMethod |-> "GET"],
             [path |-> "admin/users/add-credits", httpMethod |-> "POST"],
             [path |-> "admin/users", httpMethod |-> "POST"],
             [path |-> "credits", httpMethod |-> "GET"],
             [path |-> "credits", httpMethod |-> "POST"],
             [path |-> "credits", httpMethod |-> "PUT"],
             [path |-> "v1beta/models/m:generateContent", httpMethod |-> "POST"],
             [path |-> "v1beta/models/m:generateContent", httpMethod |-> "GET"]}

startsWithAdmin(path) == path \in {"admin/users", "admin/users/add-credits"}

\* the `amount` of an add-credits body: a number (integer or not) or a value
\* of another type
Amounts == {[type |-> "number", isInteger |-> TRUE, val |-> n] : n \in (0 - 1)..MaxAmount}
             \cup {[type |-> "number", isInteger |-> FALSE, val |-> 1],
                   [type |-> "string", isInteger |-> FALSE, val |-> 1]}

\* event.body of an add-credits request: absent, not JSON, or {email, amount}
Bodies == {[kind |-> "missing"], [kind |-> "invalid-json"],
           [kind |-> "json", email |-> NoEmail,
            amount |-> [type |-> "number", isInteger |-> TRUE, val |-> 1]]}
            \cup {[kind |-> "json", email |-> AliceEmail, amount |-> a] : a \in Amounts}

NoBody == [kind |-> "none"]

CreditsBody(n) == [kind |-> "credits", credits |-> n]
\* `Database error: ${errorMessage}`: the exception message is appended to
\* the error text
DatabaseErrorBody(caught) == DetailedErrorBody("Database error: ", caught)
CreditSystemErrorBody == ErrorBody("An error occurred with the credit system.")
AddCreditsInvalidBody == ErrorBody("Invalid request. 'email' and a positive integer 'amount' are required.")
\* the list the admin catch block answers when there is no KV store
mockUsers == [kind |-> "users",
              users |-> <<[email |-> "user1@example.com", credits |-> 5],
                          [email |-> "user2@example.com", credits |-> 1],
                          [email |-> KvDevEmail, credits |-> 999]>>]

\* the store key a getOrCreateUserCredits call of the invocation works on
KvKey(r) == IF event[r].path = "credits" THEN user[r].email ELSE event[r].body.email

\* collation rank of a character, for localeCompare
Collation == <<" ", "-", ".", "@", "0", "1", "2", "3", "4", "5", "6", "7", "8", "9",
               "a", "A", "b", "B", "c", "C", "d", "D", "e", "E", "f", "F", "g", "G",
               "h", "H", "i", "I", "j", "J", "k", "K", "l", "L", "m", "M", "n", "N",
               "o", "O", "p", "P", "q", "Q", "r", "R", "s", "S", "t", "T", "u", "U",
               "v", "V", "w", "W", "x", "X", "y", "Y", "z", "Z">>
Rank(c) == CHOOSE i \in 1..Len(Collation) : Collation[i] = c

RECURSIVE localeCompareLeq(_, _)
localeCompareLeq(a, b) ==
    IF a = <<>> THEN TRUE
    ELSE IF b = <<>> THEN FALSE
    ELSE IF a[1] = b[1] THEN localeCompareLeq(Tail(a), Tail(b))
    ELSE Rank(a[1]) < Rank(b[1])

\* users.sort((a, b) => a.email.localeCompare(b.email)) on a set of entries
\* with distinct emails
RECURSIVE sortByEmail(_)
sortByEmail(users) ==
    IF users = {} THEN <<>>
    ELSE LET first == CHOOSE u \in users :
                        \A v \in users : localeCompareLeq(Chars(u.email), Chars(v.email))
         IN  <<first>> \o sortByEmail(users \ {first})

\* The catch block of the admin routes, for an exception other than the
\* missing store.
KvAdminCatch(r, what) ==
    /\ Return(r, jsonResponse(500, DatabaseErrorBody(what)))
    /\ local' = [local EXCEPT ![r].caught = what]

\* The catch block of the /credits route: any exception is answered with
\* mock credits.
KvCreditsCatch(r, method, what) ==
    /\ local' = [local EXCEPT ![r].caught = what]
    /\ IF method = "GET" THEN Return(r, jsonResponse(200, CreditsBody(MOCK_GET_CREDITS)))
       ELSE IF method = "POST" THEN Return(r, jsonResponse(200, CreditsBody(MOCK_POST_CREDITS)))
       ELSE Return(r, jsonResponse(500, CreditSystemErrorBody))

\* the account of the body created before the body's amount is validated
KvAddCredits_CreateFirst(r, body) ==
    IF body.kind = "missing"
    THEN /\ Return(r, jsonResponse(400, ErrorBody("Request body is missing.")))
         /\ UNCHANGED <<kv, local, calls>>
    ELSE IF body.kind = "invalid-json"
    THEN /\ KvAdminCatch(r, "json")
         /\ UNCHANGED <<kv, calls>>
    ELSE IF body.email = NoEmail
    THEN /\ Return(r, jsonResponse(400, AddCreditsInvalidBody))
         /\ UNCHANGED <<kv, local, calls>>
    ELSE IF \/ body.amount.type # "number"
            \/ ~body.amount.isInteger
            \/ body.amount.val <= 0
    THEN /\ Return(r, jsonResponse(400, AddCreditsInvalidBody))
         /\ kv' = IF kv[body.email] = Null
                  THEN [kv EXCEPT ![body.email] = StringOf(KV_INITIAL_CREDITS)]
                  ELSE kv
         /\ calls' = [calls EXCEPT ![r].get = @ + 1,
                                   ![r].set = @ + (IF kv[body.email] = Null THEN 1 ELSE 0)]
         /\ UNCHANGED local
    ELSE /\ Await(r, "getOrCreate.get")
         /\ Called(r, "get")
         /\ UNCHANGED <<kv, local>>

\* POST admin/users/add-credits with the store at hand: the body is
\* validated and getOrCreateUserCredits issues its get.
KvAddCredits(r, body) ==
    /\ UNCHANGED kv
    /\ IF body.kind = "missing"
       THEN /\ Return(r, jsonResponse(400, ErrorBody("Request body is missing.")))
            /\ UNCHANGED <<local, calls>>
       ELSE IF body.kind = "invalid-json"
       THEN /\ KvAdminCatch(r, "json")
            /\ UNCHANGED calls
       ELSE IF \/ body.email = NoEmail
               \/ body.amount.type # "number"
               \/ ~body.amount.isInteger
               \/ body.amount.val <= 0
       THEN /\ Return(r, jsonResponse(400, AddCreditsInvalidBody))
            /\ UNCHANGED <<local, calls>>
       ELSE /\ Await(r, "getOrCreate.get")
            /\ Called(r, "get")
            /\ UNCHANGED local

\* the admin gate left open to every authenticated user
isAdminOfList_Everyone(userIdentifier) == TRUE

\* isAdmin of the kv handler: ADMIN_USERS.includes(userIdentifier)
isAdminOfList(userIdentifier) == userIdentifier \in ADMIN_USERS

\* The router of the kv handler for userIdentifier uid, up to its first
\* await.  isDev is isDevRequest; ev is the event as read so far.
KvRouter(r, uid, isDev, ev) ==
    \E rt \in KvRoutes, kvStoreAvailable \in BOOLEAN, body \in Bodies :
       LET isAdminUser == isAdminOfList(uid)
           readsBody == /\ rt.path = "admin/users/add-credits"
                        /\ rt.httpMethod = "POST"
                        /\ isAdminUser
           e == [ev EXCEPT ![r].path = rt.path, ![r].httpMethod = rt.httpMethod,
                           ![r].body = IF readsBody THEN body ELSE NoBody]
       IN
       /\ readsBody \/ body = [kind |-> "missing"]
       /\ (startsWithAdmin(rt.path) /\ isAdminUser) \/ rt.path = "credits" \/ kvStoreAvailable
       /\ event' = e
       /\ user' = [user EXCEPT ![r] = [email |-> uid, id |-> "none"]]
       /\ UNCHANGED blobs
       /\ IF readsBody /\ kvStoreAvailable
          THEN KvAddCredits(r, body)
          ELSE /\ UNCHANGED kv
               /\ IF startsWithAdmin(rt.path)
                  THEN IF ~isAdminUser
                       THEN /\ Return(r, jsonResponse(403, ErrorBody("Forbidden: Admin access required.")))
                            /\ UNCHANGED <<local, calls>>
                       ELSE IF ~kvStoreAvailable
                       THEN /\ local' = [local EXCEPT ![r].caught = "unavailable"]
                            /\ UNCHANGED calls
                            /\ IF rt.path = "admin/users" /\ rt.httpMethod = "GET"
                               THEN Return(r, jsonResponse(200, mockUsers))
                               ELSE IF rt.path = "admin/users/add-credits" /\ rt.httpMethod = "POST"
                               THEN IF body.kind = "missing"
                                    THEN Return(r, jsonResponse(400, ErrorBody("Request body is missing.")))
                                    ELSE IF body.kind = "invalid-json"
                                    THEN Return(r, jsonResponse(400, ErrorBody("Invalid JSON in request body.")))
                                    ELSE Return(r, jsonResponse(200, CreditsBody(MOCK_ADD_CREDITS)))
                               ELSE Return(r, jsonResponse(500, DatabaseErrorBody("unavailable")))
                       ELSE IF rt.path = "admin/users" /\ rt.httpMethod = "GET"
                       THEN /\ Await(r, "admin.list")
                            /\ Called(r, "list")
                            /\ UNCHANGED local
                       ELSE /\ Return(r, jsonResponse(404, ErrorBody("Admin route not found.")))
                            /\ UNCHANGED <<local, calls>>
                  ELSE IF rt.path = "credits"
                  THEN IF ~kvStoreAvailable
                       THEN /\ KvCreditsCatch(r, rt.httpMethod, "unavailable")
                            /\ UNCHANGED calls
                       ELSE IF rt.httpMethod \in {"GET", "POST"}
                       THEN IF isDev
                            THEN /\ Return(r, jsonResponse(200, CreditsBody(DEV_CREDITS)))
                                 /\ UNCHANGED <<local, calls>>
                            ELSE /\ Await(r, "getOrCreate.get")
                                 /\ Called(r, "get")
                                 /\ UNCHANGED local
                       ELSE /\ Return(r, jsonResponse(405, ErrorBody("Method Not Allowed on /credits")))
                            /\ UNCHANGED <<local, calls>>
                  ELSE IF rt.httpMethod = "POST"
                  THEN /\ Await(r, "proxy.fetch")
                       /\ Called(r, "gemini")
                       /\ UNCHANGED local
                  ELSE /\ Return(r, jsonResponse(404, ErrorBody("Not Found")))
                       /\ UNCHANGED <<local, calls>>

\* Entry of the kv handler: environment validation, then authentication up
\* to the fetch of /userinfo; a dev-token request is refused or routed.
KvHandler(r) ==
    /\ gateway = "kv"
    /\ pc[r] = "idle"
    /\ UNCHANGED <<front, gateway, env, store0>>
    /\ IF ~env.AUTH0_DOMAIN
       THEN /\ Return(r, jsonResponse(500, ErrorBody("AUTH0_DOMAIN is not configured on the server.")))
            /\ UNCHANGED <<blobs, kv, event, user, local, calls>>
       ELSE IF ~env.API_KEY
       THEN /\ Return(r, jsonResponse(500, ErrorBody("API_KEY is not configured on the server.")))
            /\ UNCHANGED <<blobs, kv, event, user, local, calls>>
       ELSE \E authHeader \in Headers :
              LET isDevRequest == authHeader = DevToken
                  ev == [event EXCEPT ![r].authorization = authHeader]
              IN  IF isDevRequest
                  THEN IF env.CONTEXT # "unset" /\ env.CONTEXT # "dev"
                       THEN /\ Return(r, jsonResponse(401, ErrorBody("Unauthorized: Dev token is only allowed in dev environments.")))
                            /\ event' = ev
                            /\ UNCHANGED <<blobs, kv, user, local, calls>>
                       ELSE KvRouter(r, KvDevEmail, TRUE, ev)
                  ELSE /\ event' = ev
                       /\ UNCHANGED <<blobs, kv, user, local>>
                       /\ IF missingHeader(authHeader)
                          THEN /\ Return(r, jsonResponse(401, MissingHeaderBody))
                               /\ UNCHANGED calls
                          ELSE /\ Await(r, "userinfo")
                               /\ Called(r, "userinfo")

\* The fetch of /userinfo settles (or throws); the email becomes the user
\* identifier and the request is routed.
KvUserInfo(r) ==
    /\ gateway = "kv"
    /\ pc[r] = "userinfo"
    /\ UNCHANGED <<front, gateway, env, store0>>
    /\ LET userInfo == UserInfo(event[r].authorization)
       IN  \/ /\ Return(r, jsonResponse(500, AuthErrorBody))
              /\ local' = [local EXCEPT ![r].caught = "userinfo"]
              /\ UNCHANGED <<blobs, kv, event, user, calls>>
           \/ IF ~userInfo.ok
              THEN /\ Return(r, jsonResponse(401, InvalidTokenBody))
                   /\ UNCHANGED <<blobs, kv, event, user, local, calls>>
              ELSE IF userInfo.email.type # "string"
              THEN /\ Return(r, jsonResponse(400, ErrorBody("User email not found in token.")))
                   /\ UNCHANGED <<blobs, kv, event, user, local, calls>>
              ELSE IF userInfo.email.val = NoEmail
              THEN /\ Return(r, jsonResponse(401, ErrorBody("Could not identify user.")))
                   /\ UNCHANGED <<blobs, kv, event, user, local, calls>>
              ELSE KvRouter(r, userInfo.email.val, FALSE, event)

\* What follows a getOrCreateUserCredits call that returned `credits`, up
\* to the caller's next await.
KvAfterGetOrCreate(r, credits) ==
    /\ local' = [local EXCEPT ![r].credits = credits]
    /\ IF event[r].path = "credits" /\ event[r].httpMethod = "GET"
       THEN /\ Return(r, jsonResponse(200, CreditsBody(credits)))
            /\ UNCHANGED calls
       ELSE IF event[r].path = "credits"
       THEN IF credits <= 0
            THEN /\ Return(r, jsonResponse(402, OutOfCreditsBody))
                 /\ UNCHANGED calls
            ELSE /\ Await(r, "credits.set")
                 /\ Called(r, "set")
       ELSE /\ Await(r, "addCredits.set")
            /\ Called(r, "set")

\* The catch block around a store call of the invocation.
KvStoreThrows(r) ==
    /\ UNCHANGED <<kv, calls>>
    /\ IF event[r].path = "credits"
       THEN KvCreditsCatch(r, event[r].httpMethod, "store")
       ELSE KvAdminCatch(r, "store")

\* getOrCreateUserCredits: store.get(userId) returns (or throws)
KvGetOrCreateGet(r) ==
    /\ gateway = "kv"
    /\ pc[r] = "getOrCreate.get"
    /\ UNCHANGED <<front, gateway, env, store0, blobs, event, user>>
    /\ LET storedValue == kv[KvKey(r)]
       IN  \/ KvStoreThrows(r)
           \/ /\ UNCHANGED kv
              /\ IF storedValue = Null \/ parseIntIsNaN(storedValue)
                 THEN /\ Await(r, "getOrCreate.set")
                      /\ Called(r, "set")
                      /\ UNCHANGED local
                 ELSE KvAfterGetOrCreate(r, parseInt(storedValue))

\* getOrCreateUserCredits: store.set(userId, 3) returns (or throws)
KvGetOrCreateSet(r) ==
    /\ gateway = "kv"
    /\ pc[r] = "getOrCreate.set"
    /\ UNCHANGED <<front, gateway, env, store0, blobs, event, user>>
    /\ \/ KvStoreThrows(r)
       \/ /\ kv' = [kv EXCEPT ![KvKey(r)] = StringOf(KV_INITIAL_CREDITS)]
          /\ KvAfterGetOrCreate(r, KV_INITIAL_CREDITS)

\* POST /credits: creditsStore.set(userIdentifier, currentCredits - 1)
\* returns (or throws)
KvCreditsSet(r) ==
    /\ gateway = "kv"
    /\ pc[r] = "credits.set"
    /\ UNCHANGED <<front, gateway, env, store0, blobs, event, user>>
    /\ \/ KvStoreThrows(r)
       \/ LET newCredits == local[r].credits - 1
          IN  /\ kv' = [kv EXCEPT ![user[r].email] = StringOf(newCredits)]
              /\ Return(r, jsonResponse(200, CreditsBody(newCredits)))
              /\ UNCHANGED <<local, calls>>

\* the amount stored in place of the sum
addedCredits_Replace(currentCredits, amount) == amount

\* `currentCredits + amount`, the balance add-credits writes
addedCredits(currentCredits, amount) == currentCredits + amount

\* POST admin/users/add-credits: creditsStore.set(email, currentCredits +
\* amount) returns (or throws)
KvAddCreditsSet(r) ==
    /\ gateway = "kv"
    /\ pc[r] = "addCredits.set"
    /\ UNCHANGED <<front, gateway, env, store0, blobs, event, user>>
    /\ \/ KvStoreThrows(r)
       \/ LET newCredits == addedCredits(local[r].credits, event[r].body.amount.val)
          IN  /\ kv' = [kv EXCEPT ![event[r].body.email] = StringOf(newCredits)]
              /\ Return(r, jsonResponse(200, CreditsBody(newCredits)))
              /\ UNCHANGED <<local, calls>>

UsersBody(users) == [kind |-> "users", users |-> sortByEmail(users)]

\* GET admin/users: creditsStore.list() returns (or throws) and one get per
\* key is issued
KvAdminList(r) ==
    /\ gateway = "kv"
    /\ pc[r] = "admin.list"
    /\ UNCHANGED <<front, gateway, env, store0, blobs, kv, event, user>>
    /\ \/ /\ KvAdminCatch(r, "store")
          /\ UNCHANGED calls
       \/ LET keys == {k \in KvKeys : kv[k] # Null}
          IN  IF keys = {}
              THEN /\ Return(r, jsonResponse(200, UsersBody({})))
                   /\ UNCHANGED <<local, calls>>
              ELSE /\ local' = [local EXCEPT ![r].keys = keys]
                   /\ Await(r, "admin.gets")
                   /\ calls' = [calls EXCEPT ![r].get = @ + Cardinality(keys)]

\* GET admin/users: one creditsStore.get(name) of the Promise.all returns (or
\* throws); after the last one the list is sorted and returned
KvAdminGet(r) ==
    /\ gateway = "kv"
    /\ pc[r] = "admin.gets"
    /\ UNCHANGED <<front, gateway, env, store0, blobs, kv, event, user, calls>>
    /\ \/ KvAdminCatch(r, "store")
       \/ \E name \in local[r].keys :
            LET credits == kv[name]
                entry == [email |-> name,
                          credits |-> IF credits = Null \/ parseIntIsNaN(credits)
                                      THEN 0 ELSE parseInt(credits)]
                users == local[r].users \cup {entry}
            IN  /\ local' = [local EXCEPT ![r].keys = @ \ {name}, ![r].users = users]
                /\ IF local[r].keys = {name}
                   THEN Return(r, jsonResponse(200, UsersBody(users)))
                   ELSE Await(r, "admin.gets")

\* the fetch of the model API issued again, up to three times in all, when
\* it throws or is answered with a non-2xx
KvProxyFetch_Retry(r) ==
    /\ gateway = "kv"
    /\ pc[r] = "proxy.fetch"
    /\ UNCHANGED <<front, gateway, env, store0, blobs, kv, event, user>>
    /\ \/ /\ calls[r].gemini < 3
          /\ Await(r, "proxy.fetch")
          /\ Called(r, "gemini")
          /\ UNCHANGED local
       \/ /\ Return(r, jsonResponse(500, ProxyErrorBody))
          /\ local' = [local EXCEPT ![r].caught = "fetch"]
          /\ UNCHANGED calls
       \/ /\ \E response \in GeminiResponses :
               Return(r, [statusCode |-> response.status,
                          body |-> GeminiBody(response.text)])
          /\ UNCHANGED <<local, calls>>

\* default route: the fetch of the model API settles (or throws) and its
\* answer is relayed
KvProxyFetch(r) ==
    /\ gateway = "kv"
    /\ pc[r] = "proxy.fetch"
    /\ UNCHANGED <<front, gateway, env, store0, blobs, kv, event, user, calls>>
    /\ \/ /\ Return(r, jsonResponse(500, ProxyErrorBody))
          /\ local' = [local EXCEPT ![r].caught = "fetch"]
       \/ /\ \E response \in GeminiResponses :
               Return(r, [statusCode |-> response.status,
                          body |-> GeminiBody(response.text)])
          /\ UNCHANGED local

KvNext ==
    \E r \in Reqs :
       \/ KvHandler(r)
       \/ KvUserInfo(r)
       \/ KvGetOrCreateGet(r)
       \/ KvGetOrCreateSet(r)
       \/ KvCreditsSet(r)
       \/ KvAddCreditsSet(r)
       \/ KvAdminList(r)
       \/ KvAdminGet(r)
       \/ KvProxyFetch(r)

(* ======================= the "relay" handler ========================== *)
\* The second handler of netlify/functions/api-proxy.ts: no authentication
\* and no credits, every request is posted to the model API and the answer
\* is parsed and serialised again.

RECURSIVE WithoutBlanks(_)
WithoutBlanks(s) == IF s = <<>> THEN <<>>
                    ELSE IF s[1] = " " THEN WithoutBlanks(Tail(s))
                    ELSE <<s[1]>> \o WithoutBlanks(Tail(s))

\* response.json() of a body: it throws on a body that is no JSON document
jsonThrows(chars) == SkipWs(chars) = <<>> \/ SkipWs(chars)[1] # "{"

\* JSON.stringify(data) of the parsed body: the document without the white
\* space between its tokens
stringifyParsed(chars) == WithoutBlanks(chars)

ReserialisedBody(chars) == [kind |-> "reserialised", chars |-> chars]

\* Entry of the relay handler: the API key is checked and the request is
\* posted to the model API with event.body as it came.
RelayHandler(r) ==
    /\ gateway = "relay"
    /\ pc[r] = "idle"
    /\ UNCHANGED <<front, gateway, env, store0, blobs, kv, user, local>>
    /\ IF ~env.API_KEY
       THEN /\ Return(r, jsonResponse(500, ErrorBody("API_KEY is not configured on the server.")))
            /\ UNCHANGED <<event, calls>>
       ELSE /\ \E body \in Payloads :
                 event' = [event EXCEPT ![r].path = "v1beta/models/m:generateContent",
                                        ![r].body = body]
            /\ Await(r, "relay.fetch")
            /\ Called(r, "gemini")

\* the fetch of the model API settles (or throws); response.json() parses
\* the body (or throws) and the parsed data is serialised into the answer
RelayFetch(r) ==
    /\ gateway = "relay"
    /\ pc[r] = "relay.fetch"
    /\ UNCHANGED <<front, gateway, env, store0, blobs, kv, event, user, calls>>
    /\ \/ /\ Return(r, jsonResponse(500, ProxyErrorBody))
          /\ local' = [local EXCEPT ![r].caught = "fetch"]
       \/ \E response \in GeminiResponses :
            IF jsonThrows(TextChars(response.text))
            THEN /\ Return(r, jsonResponse(500, ProxyErrorBody))
                 /\ local' = [local EXCEPT ![r].caught = "response.json"]
            ELSE /\ Return(r, [statusCode |-> IF response.ok THEN 200 ELSE response.status,
                               body |-> ReserialisedBody(stringifyParsed(TextChars(response.text)))])
                 /\ UNCHANGED local

RelayNext == \E r \in Reqs : RelayHandler(r) \/ RelayFetch(r)

(* ======================= the browser's service ======================== *)
maxRetries == 3
initialDelay == 1000

\* what a fetch of the gateway settles with: a response of a handler, the
\* AbortError of the request timeout, or the TypeError of a failed connection
GatewayResponses ==
    {jsonResponse(200, GeminiBody("candidates")),
     jsonResponse(401, InvalidTokenBody),
     jsonResponse(402, OutOfCreditsBody),
     jsonResponse(500, ProxyErrorBody),
     jsonResponse(503, GeminiBody("overloaded"))}
GatewayAnswers ==
    {[outcome |-> "response", response |-> g] : g \in GatewayResponses}
      \cup {[outcome |-> "AbortError"], [outcome |-> "TypeError"]}

\* A message is the sequence of the pieces the code builds it from.
\* errorDetails: the error field of a JSON body, else the status and the text
errorDetails(response) ==
    IF response.body.kind = "error"
    THEN <<response.body.error>>
    ELSE IF jsonThrows(TextChars(response.body.text))
         THEN <<"Status code: ">> \o StringOf(response.statusCode)
                \o <<", Body: ", response.body.text>>
         ELSE <<"{}">>

\* every failure taken for a server error
isServerError_Always(errorMessage) == TRUE
\* errorMessage.includes('Status code: 5')
isServerError(errorMessage) ==
    \E i \in 1..(Len(errorMessage) - 1) :
        errorMessage[i] = "Status code: " /\ errorMessage[i + 1] = "5"

ReLoginMessage == <<"Authentication failed. Please log out and log back in.">>

\* the Error the try block of callApiWithFetchAndRetry throws on `answer`
callApiError(answer) ==
    IF answer.outcome # "response"
    THEN <<answer.outcome>>
    ELSE IF answer.response.statusCode = 401
         THEN ReLoginMessage
         ELSE <<"API request failed: ">> \o errorDetails(answer.response)

\* the Error deductUserCredit throws on `answer`
deductError(answer) ==
    IF answer.outcome # "response"
    THEN <<answer.outcome>>
    ELSE IF answer.response.statusCode = 402
         THEN <<"You are out of credits.">>
         ELSE <<"Failed to deduct credit: ">> \o errorDetails(answer.response)

\* response.ok
responseOk(answer) == answer.outcome = "response" /\ answer.response.statusCode = 200

\* the invocations of the gateway that have not started (none when the
\* service runs without a gateway)
NotStarted == IF gateway = "page" THEN {r \in Reqs : pc[r] = "idle"} ELSE {}

\* whether invocation r, as far as it read its event, was started by the
\* page's POST to :generateContent with the signed-in user's token
ServesPage(r) ==
    /\ event[r].authorization \in {Unread, AliceToken}
    /\ event[r].path \in {Unread, "/v1beta/models/m:generateContent"}
    /\ event[r].httpMethod \in {Unread, "POST"}

\* what the fetch of call c may settle with, and the invocation the
\* response came from: on its own any answer of a gateway; behind the page
\* the response of an invocation started by this request and completed, or
\* the AbortError of the timeout, or a TypeError
Fetched(c) ==
    IF gateway = "browser"
    THEN {[answer |-> a, from |-> {}] : a \in GatewayAnswers}
    ELSE {[answer |-> [outcome |-> "response", response |-> resp[r]], from |-> {r}] :
             r \in {q \in client[c].idle :
                      /\ pc[q] = "done"
                      /\ ServesPage(q)
                      /\ q \notin client[c].served \cup app.served}}
           \cup {[answer |-> [outcome |-> "AbortError"], from |-> {}],
                 [answer |-> [outcome |-> "TypeError"], from |-> {}]}

ClientFrame ==
    UNCHANGED <<goc, gocStore, session, app, gateway, env, blobs, kv, store0, pc, event, user, local, resp,
                calls>>

\* the page calls one of the two functions; the function sends its request
ClientCall(c) ==
    /\ gateway = "browser"
    /\ client[c].pc = "idle"
    /\ \E fn \in {"callApiWithFetchAndRetry", "deductUserCredit"} :
          client' = [client EXCEPT ![c] = [@ EXCEPT !.fn = fn, !.pc = "fetch",
                                                    !.attempt = 1, !.fetches = 1]]
    /\ ClientFrame

\* the fetch of callApiWithFetchAndRetry settles: the function returns the
\* parsed body, waits before the next attempt, or rethrows
callApiFetchSettles(c) ==
    /\ gateway \in {"browser", "page"}
    /\ client[c].fn = "callApiWithFetchAndRetry"
    /\ client[c].pc = "fetch"
    /\ \E fetched \in Fetched(c) :
          LET answer == fetched.answer
              error == callApiError(answer)
              isTimeout == answer.outcome = "AbortError"
              isNetworkError == answer.outcome = "TypeError"
              settled == [client[c] EXCEPT !.answer = answer,
                                           !.served = @ \cup fetched.from]
          IN  client' = [client EXCEPT ![c] =
                IF responseOk(answer)
                THEN [settled EXCEPT !.pc = "returned"]
                ELSE IF (isTimeout \/ isNetworkError \/ isServerError(error))
                          /\ client[c].attempt < maxRetries
                     THEN [settled EXCEPT !.pc = "delay",
                                    !.delay = initialDelay * 2 ^ (client[c].attempt - 1)]
                     ELSE [settled EXCEPT !.pc = "thrown", !.error = error]]
    /\ ClientFrame

\* the delay before a retry ends: the next attempt sends the request again
callApiRetry(c) ==
    /\ gateway \in {"browser", "page"}
    /\ client[c].pc = "delay"
    /\ client' = [client EXCEPT ![c] = [@ EXCEPT !.pc = "fetch",
                                                 !.attempt = @ + 1,
                                                 !.fetches = @ + 1,
                                                 !.idle = NotStarted]]
    /\ ClientFrame

\* the fetch of deductUserCredit settles; the request carries no abort signal
deductFetchSettles(c) ==
    /\ gateway = "browser"
    /\ client[c].fn = "deductUserCredit"
    /\ client[c].pc = "fetch"
    /\ \E answer \in GatewayAnswers \ {[outcome |-> "AbortError"]} :
          client' = [client EXCEPT ![c] =
                IF responseOk(answer)
                THEN [@ EXCEPT !.answer = answer, !.pc = "returned"]
                ELSE [@ EXCEPT !.answer = answer, !.pc = "thrown",
                               !.error = deductError(answer)]]
    /\ ClientFrame

ClientNext ==
    \E c \in Reqs : \/ ClientCall(c)
                    \/ callApiFetchSettles(c)
                    \/ callApiRetry(c)
                    \/ deductFetchSettles(c)

(* ================= getOrCreateUserCredits on its own ================== *)
\* Number(credits)
NumberIsNaN(s) == LET t == trim(s)
                  IN  t # <<>> /\ (Unsigned(t) = <<>>
                                    \/ LeadingDigits(Unsigned(t)) # Unsigned(t))
NumberOf(s) == IF trim(s) = <<>> THEN 0 ELSE parseInt(s)

GocFrame ==
    UNCHANGED <<client, session, app, gateway, env, blobs, kv, store0, pc, event, user, local,
                resp, calls>>

\* a caller calls the function of the first or of the third handler file
gocCall(c) ==
    /\ gateway = "getOrCreate"
    /\ goc[c].pc = "idle"
    /\ \E variant \in {"first", "third"}, userId \in GocKeys :
          goc' = [goc EXCEPT ![c] = [@ EXCEPT !.variant = variant,
                                              !.userId = userId, !.pc = "get"]]
    /\ UNCHANGED gocStore
    /\ GocFrame

\* store.get(userId) returns (or throws): the function returns the number
\* it read, or goes on to store the initial balance
gocGet(c) ==
    /\ gateway = "getOrCreate"
    /\ goc[c].pc = "get"
    /\ UNCHANGED gocStore
    /\ GocFrame
    /\ LET storedValue == gocStore[goc[c].userId]
           read == [goc[c] EXCEPT !.storedValue = storedValue]
       IN  \/ goc' = [goc EXCEPT ![c] = [@ EXCEPT !.pc = "thrown"]]
           \/ goc' = [goc EXCEPT ![c] =
                 IF storedValue = Null
                 THEN [read EXCEPT !.pc = "set"]
                 ELSE IF goc[c].variant = "first"
                 THEN IF parseIntIsNaN(storedValue)
                      THEN [read EXCEPT !.pc = "set"]
                      ELSE [read EXCEPT !.pc = "returned",
                                        !.result = parseInt(storedValue)]
                 ELSE IF NumberIsNaN(storedValue)
                      THEN [read EXCEPT !.pc = "returned", !.nan = TRUE]
                      ELSE [read EXCEPT !.pc = "returned",
                                        !.result = NumberOf(storedValue)]]

\* store.set(userId, 3) returns (or throws)
gocSet(c) ==
    /\ gateway = "getOrCreate"
    /\ goc[c].pc = "set"
    /\ GocFrame
    /\ \/ /\ goc' = [goc EXCEPT ![c] = [@ EXCEPT !.pc = "thrown"]]
          /\ UNCHANGED gocStore
       \/ /\ gocStore' = [gocStore EXCEPT ![goc[c].userId] = StringOf(KV_INITIAL_CREDITS)]
          /\ goc' = [goc EXCEPT ![c] = [@ EXCEPT !.pc = "returned",
                                                 !.result = KV_INITIAL_CREDITS,
                                                 !.writes = @ + 1]]

GocNext ==
    \E c \in Reqs : \/ gocCall(c)
                    \/ gocGet(c)
                    \/ gocSet(c)

ProviderFrame ==
    UNCHANGED <<client, goc, gocStore, app, gateway, env, blobs, kv, store0, pc, event, user,
                local, resp, calls>>

\* the auth hook finishes loading, with or without a session
authSettles ==
    /\ gateway = "provider"
    /\ session.authLoading
    /\ \E isAuthenticated \in BOOLEAN :
          session' = Rendered(session, [session EXCEPT !.authLoading = FALSE,
                                           !.isAuthenticated = isAuthenticated])
    /\ ProviderFrame

\* the auth hook reports that the session has ended
sessionLost ==
    /\ gateway = "provider"
    /\ ~session.isMock /\ ~session.authLoading /\ session.isAuthenticated
    /\ session' = Rendered(session, [session EXCEPT !.isAuthenticated = FALSE])
    /\ ProviderFrame

\* the catch block of the initial run
verifyCatch(s) ==
    IF s.variant = "part_001"
    THEN [s EXCEPT !.status = "error", !.credits = Unknown, !.isAdmin = FALSE,
                   !.initialFailed = TRUE]
    ELSE IF s.variant = "part_000"
    THEN [s EXCEPT !.credits = Unknown, !.isAdmin = FALSE, !.status = "success",
                   !.initialFailed = TRUE]
    ELSE [s EXCEPT !.credits = <<0>>, !.isAdmin = FALSE, !.status = "error",
                   !.initialFailed = TRUE]

\* getAccessTokenSilently settles in a run: the run goes on to fetch the
\* user data, or the call rejects (as it does without a session)
tokenSettles(kind) ==
    /\ gateway = "provider"
    /\ ProviderFrame
    /\ IF kind = "verify"
       THEN /\ session.chains.verifyToken > 0
            /\ LET s == [session EXCEPT !.chains.verifyToken = @ - 1]
               IN  \/ /\ session.isAuthenticated
                      /\ session' = [s EXCEPT !.chains.verifyFetch = @ + 1]
                   \/ session' = Rendered(session, verifyCatch(s))
       ELSE /\ session.chains.syncToken > 0
            /\ LET s == [session EXCEPT !.chains.syncToken = @ - 1]
               IN  \/ /\ session.isAuthenticated
                      /\ session' = [s EXCEPT !.chains.syncFetch = @ + 1]
                   \/ session' = s

\* the user-data fetch settles in a run
fetchSettles(kind) ==
    /\ gateway = "provider"
    /\ ProviderFrame
    /\ IF kind = "verify"
       THEN /\ session.chains.verifyFetch > 0
            /\ LET s == [session EXCEPT !.chains.verifyFetch = @ - 1]
               IN  \/ \E admin \in BOOLEAN, credits \in 0..MaxFetchedCredits :
                         session' = Rendered(session,
                             [s EXCEPT !.isAdmin = admin, !.credits = <<credits>>,
                                       !.status = "success",
                                       !.adminFetched = @ \/ admin])
                   \/ session' = Rendered(session, verifyCatch(s))
       ELSE /\ session.chains.syncFetch > 0
            /\ LET s == [session EXCEPT !.chains.syncFetch = @ - 1]
               IN  \/ \E admin \in BOOLEAN, credits \in 0..MaxFetchedCredits :
                         session' = Rendered(session,
                             [s EXCEPT !.isAdmin = admin, !.credits = <<credits>>,
                                       !.adminFetched = @ \/ admin,
                                       !.initialFailed = FALSE])
                   \/ session' = s

\* a refresh starts: syncUserData of the polling effect (interval tick or
\* tab made visible), or the manual fetchUserData of the other variants
syncStart ==
    /\ gateway = "provider"
    /\ ~session.isMock /\ session.isAuthenticated
    /\ session.variant = "part_001" => session.status = "success"
    /\ session.chains.verifyToken + session.chains.verifyFetch
         + session.chains.syncToken + session.chains.syncFetch < MaxChains
    /\ session' = [session EXCEPT !.chains.syncToken = @ + 1]
    /\ ProviderFrame

\* the updater without its floor at 0
setCreditsUpdater_NoFloor(prev) == IF prev = Unknown THEN Unknown ELSE <<prev[1] - 1>>
\* the updater deductCredit passes to setCredits
setCreditsUpdater(prev) == IF prev = Unknown THEN Unknown ELSE <<IF prev[1] - 1 > 0 THEN prev[1] - 1 ELSE 0>>

\* a consumer calls deductCredit (under the dev hook it calls the hook's own
\* deductCredit, which logs)
deductCredit ==
    /\ gateway = "provider"
    /\ session.variant = "part_001"
    /\ session.deducts < MaxDeducts
    /\ session' = [session EXCEPT !.deducts = @ + 1,
                                  !.credits = IF session.isMock THEN @ ELSE setCreditsUpdater(@)]
    /\ ProviderFrame

\* the isLoading the context value hands to consumers
isLoading == session.status \in {"pending", "loading"}

ProviderNext ==
    \/ authSettles
    \/ sessionLost
    \/ \E kind \in {"verify", "sync"} : \/ tokenSettles(kind)
                                        \/ fetchSettles(kind)
    \/ syncStart
    \/ deductCredit

(* ============================ the App page ============================ *)
\* the decades the timeline loops over (DECADES has twelve)
NumDecades == 2
\* the page awaits each generateStyledImage call: one call is in flight
PageCall == 1

AppFrame ==
    UNCHANGED <<goc, gocStore, session, gateway, env, blobs, kv, store0, pc, event, user,
                local, resp, calls>>

\* generateStyledImage up to the first fetch of callApiWithFetchAndRetry
generateStyledImage ==
    [NoClientCall EXCEPT !.fn = "callApiWithFetchAndRetry", !.pc = "fetch",
                         !.attempt = 1, !.fetches = 1, !.idle = NotStarted]

\* a photo is chosen and processed
handleImageUpload ==
    /\ gateway = "page"
    /\ app.run = "none"
    /\ app' = [app EXCEPT !.uploadedImage = TRUE, !.paidForCurrentImage = FALSE,
                          !.served = {}, !.generated = {}]
    /\ UNCHANGED client
    /\ AppFrame

\* Start Over
handleReset ==
    /\ gateway = "page"
    /\ app.run = "none"
    /\ app.uploadedImage
    /\ app' = [app EXCEPT !.uploadedImage = FALSE, !.paidForCurrentImage = FALSE,
                          !.served = {}, !.generated = {}]
    /\ UNCHANGED client
    /\ AppFrame

\* Generate: refused when the displayed credits (an input from the user
\* context: null or a number) is 0 and the upload is not paid for; else the
\* handler awaits the token
handleGenerateTimeline ==
    /\ gateway = "page"
    /\ app.run = "none"
    /\ app.uploadedImage
    /\ \E credits \in {Unknown, <<0>>, <<1>>} :
          IF ~app.paidForCurrentImage /\ credits # Unknown /\ credits[1] <= 0
          THEN UNCHANGED app
          ELSE app' = [app EXCEPT !.run = "timeline", !.pc = "token", !.decade = 1,
                                  !.atLeastOneSuccess = FALSE]
    /\ UNCHANGED client
    /\ AppFrame

\* Regenerate on a card: the handler awaits the token
handleRegenerate ==
    /\ gateway = "page"
    /\ app.run = "none"
    /\ app.uploadedImage
    /\ app' = [app EXCEPT !.run = "regenerate", !.pc = "token"]
    /\ UNCHANGED client
    /\ AppFrame

\* getAuthToken settles: the handler gives up, or calls generateStyledImage
getAuthToken ==
    /\ gateway = "page"
    /\ app.pc = "token"
    /\ AppFrame
    /\ \/ /\ app' = [app EXCEPT !.run = "none", !.pc = "idle"]
          /\ UNCHANGED client
       \/ /\ app' = [app EXCEPT !.pc = "generate"]
          /\ client' = [client EXCEPT ![PageCall] = generateStyledImage]

\* handleCreditDeduction: the flag is set (and the user data refreshed)
handleCreditDeduction(a) == [a EXCEPT !.paidForCurrentImage = TRUE]

\* the awaited generateStyledImage call settles: with an image, or with an
\* Error (of the call, or of processApiResponse finding no image); the
\* timeline goes on to the next decade or ends, a regeneration ends
generateSettles ==
    /\ gateway = "page"
    /\ app.pc = "generate"
    /\ client[PageCall].pc \in {"returned", "thrown"}
    /\ AppFrame
    /\ \E image \in BOOLEAN :
          LET success == client[PageCall].pc = "returned" /\ image
              a == [app EXCEPT !.served = @ \cup client[PageCall].served,
                               !.generated = IF success
                                             THEN @ \cup {r \in client[PageCall].served :
                                                            resp[r].statusCode = 200}
                                             ELSE @,
                               !.atLeastOneSuccess = @ \/ success]
          IN  IF app.run = "timeline" /\ app.decade < NumDecades
              THEN /\ app' = [a EXCEPT !.decade = @ + 1]
                   /\ client' = [client EXCEPT ![PageCall] = generateStyledImage]
              ELSE /\ app' = [(IF app.run = "timeline" /\ a.atLeastOneSuccess
                                THEN handleCreditDeduction(a) ELSE a)
                               EXCEPT !.run = "none", !.pc = "idle", !.decade = 0,
                                      !.atLeastOneSuccess = FALSE]
                   /\ client' = [client EXCEPT ![PageCall] = NoClientCall]

AppNext ==
    \/ handleImageUpload
    \/ handleReset
    \/ handleGenerateTimeline
    \/ handleRegenerate
    \/ getAuthToken
    \/ generateSettles
    \/ \E c \in Reqs : \/ callApiFetchSettles(c)
                       \/ callApiRetry(c)

\* behind the page the handler runs its generation route
PageNext ==
    \/ \E r \in Reqs : \/ BlobsHandler(r)
                       \/ BlobsUserInfo(r)
                       \/ BlobsGenerateGet(r)
                       \/ BlobsGenerateSet(r)
                       \/ BlobsGenerateFetch(r)
    \/ AppNext

Next == BlobsNext \/ KvNext \/ RelayNext \/ ClientNext \/ GocNext \/ ProviderNext \/ AppNext

Spec == Init /\ [][Next]_vars

\* the blobs handler alone, and the kv handler alone
InitBlobs == Init /\ gateway = "blobs"
InitKv == Init /\ gateway = "kv"
InitRelay == Init /\ gateway = "relay"
SpecBlobs == InitBlobs /\ [][BlobsNext]_vars
SpecKv == InitKv /\ [][KvNext]_vars
SpecRelay == InitRelay /\ [][RelayNext]_vars
\* getOrCreateUserCredits alone
InitGoc == Init /\ gateway = "getOrCreate"
SpecGoc == InitGoc /\ [][GocNext]_vars
\* the App page with the blobs handler behind it
InitPage == Init /\ gateway = "page"
SpecPage == InitPage /\ [][PageNext]_vars
\* the UserProvider component alone
InitProvider == Init /\ gateway = "provider"
SpecProvider == InitProvider /\ [][ProviderNext]_vars
\* every getAccessTokenSilently call and every user-data fetch settles
SpecProviderLive ==
    /\ InitProvider
    /\ [][ProviderNext]_vars
    /\ \A kind \in {"verify", "sync"} : /\ WF_vars(tokenSettles(kind))
                                        /\ WF_vars(fetchSettles(kind))
\* the browser's service alone
InitClient == Init /\ gateway = "browser"
SpecClient == InitClient /\ [][ClientNext]_vars
\* every fetch of callApiWithFetchAndRetry settles (it is aborted after
\* requestTimeout) and every delay timer fires
SpecClientLive ==
    /\ InitClient
    /\ [][ClientNext]_vars
    /\ \A c \in Reqs : /\ WF_vars(callApiFetchSettles(c))
                       /\ WF_vars(callApiRetry(c))

(* ====================== properties of the gateway ===================== *)
Accounts == IF BlobsDeployed THEN BlobKeys ELSE KvKeys
Stored(k) == IF BlobsDeployed THEN blobs[k] ELSE kv[k]
Stored0(k) == IF BlobsDeployed THEN store0.blobs[k] ELSE store0.kv[k]
Absent(v) == v \in {Undefined, Null}
Account(r) == IF BlobsDeployed THEN user[r].id ELSE user[r].email

\* r was routed to the route that deducts a credit
Deducts(r) ==
    \/ /\ BlobsDeployed
       /\ event[r].httpMethod = "POST"
       /\ includesGenerateContent(event[r].path)
    \/ /\ gateway = "kv"
       /\ event[r].path = "credits"
       /\ event[r].httpMethod = "POST"
       /\ event[r].authorization # DevToken

\* r passed the balance check and its deduction was written
Reserved(r) ==
    /\ Deducts(r)
    /\ IF BlobsDeployed
       THEN calls[r].gemini = 1
       ELSE pc[r] = "done" /\ resp[r].statusCode = 200 /\ local[r].caught = "none"

\* r was answered OutOfCredits
Refused(r) ==
    /\ Deducts(r)
    /\ pc[r] = "done"
    /\ resp[r] = jsonResponse(402, OutOfCreditsBody)

\* the balance read of the deducting request r has returned a value
BalanceRead(r) ==
    /\ Deducts(r)
    /\ pc[r] \notin {"generate.get", "getOrCreate.get", "getOrCreate.set"}
    /\ local[r].caught = "none"

\* C1: No double-spend.  When NumReqs deduction requests of one account,
\* whose stored balance was n < NumReqs, have all completed without a store
\* failure, exactly n of them reserved a credit, the other NumReqs - n were
\* answered 402 OutOfCredits, and the stored balance is 0.
C1_NoDoubleSpend ==
    \A k \in Accounts :
       (/\ ~Absent(Stored0(k))
        /\ parseInt(Stored0(k)) < NumReqs
        /\ \A r \in Reqs : /\ Deducts(r)
                           /\ Account(r) = k
                           /\ pc[r] = "done"
                           /\ local[r].caught \notin {"store", "unavailable"})
       => /\ Cardinality({r \in Reqs : Reserved(r)}) = parseInt(Stored0(k))
          /\ Cardinality({r \in Reqs : Refused(r)}) = NumReqs - parseInt(Stored0(k))
          /\ Stored(k) = StringOf(0)

StoredOk(v) ==
    \/ Absent(v)
    \/ /\ ~parseIntIsNaN(v)
       /\ parseInt(v) >= 0
       /\ v = StringOf(parseInt(v))

\* C2: every stored credits value is an integer >= 0, and a deduction
\* request whose balance check read a balance <= 0 is answered 402 without
\* having written to the store.
C2_NonNegativeCredits ==
    /\ \A k \in BlobKeys : StoredOk(blobs[k])
    /\ \A k \in KvKeys : StoredOk(kv[k])
    /\ \A r \in Reqs :
          (BalanceRead(r) /\ local[r].credits <= 0)
          => /\ Refused(r)
             /\ calls[r].set = 0

\* C2 witness: a balance of 1 was deducted to 0 by one request and a second
\* request on the account was refused at that balance.
C2_Witness ==
    \E r1, r2 \in Reqs :
       /\ r1 # r2
       /\ Reserved(r1)
       /\ BalanceRead(r2) /\ local[r2].credits = 0 /\ Refused(r2)
       /\ Account(r1) = Account(r2)
       /\ Stored0(Account(r1)) = StringOf(1)
       /\ Stored(Account(r1)) = StringOf(0)

\* the amount the completed request r added to account k, as acknowledged
Added(r, k) ==
    IF /\ gateway = "kv"
       /\ event[r].path = "admin/users/add-credits"
       /\ pc[r] = "done"
       /\ resp[r].statusCode = 200
       /\ local[r].caught = "none"
       /\ event[r].body.email = k
    THEN event[r].body.amount.val
    ELSE 0

RECURSIVE SumAdded(_, _)
SumAdded(n, k) == IF n = 0 THEN 0 ELSE SumAdded(n - 1, k) + Added(n, k)

\* the balance account k starts from: its stored balance, or the initial
\* grant its creation writes
StartBalance(k) ==
    IF Absent(Stored0(k))
    THEN (IF BlobsDeployed THEN INITIAL_CREDITS ELSE KV_INITIAL_CREDITS)
    ELSE parseInt(Stored0(k))

\* C3: No lost update.  When all requests have completed, the balance of
\* every existing account is its starting balance plus the acknowledged add
\* amounts minus the number of deductions reported successful.
C3_NoLostUpdate ==
    \A k \in Accounts :
       ((\A r \in Reqs : pc[r] = "done") /\ ~Absent(Stored(k)))
       => parseInt(Stored(k)) =
             StartBalance(k) + SumAdded(NumReqs, k)
               - Cardinality({r \in Reqs : Reserved(r) /\ Account(r) = k})

\* C4: the upstream model call of a request is started only after that
\* request's own balance check passed and its deduction was written.
C4_ReserveBeforeUpstream ==
    \A r \in Reqs :
       calls[r].gemini >= 1
       => /\ calls[r].set >= 1
          /\ ~local[r].nan
          /\ local[r].credits > 0

\* C5: No refund on upstream failure.  When a generation request whose
\* reservation was written has completed with a non-2xx upstream answer or a
\* thrown upstream call, and no other request wrote to the account, the
\* stored balance is the decremented value: 0 when it started at 1.
C5_NoRefund ==
    \A r \in Reqs :
       (/\ pc[r] = "done"
        /\ calls[r].gemini = 1
        /\ resp[r].statusCode # 200
        /\ \A q \in Reqs \ {r} : calls[q].set = 0 \/ user[q].id # user[r].id)
       => /\ blobs[user[r].id] = StringOf(local[r].credits - 1)
          /\ (store0.blobs[user[r].id] = StringOf(1)
                => blobs[user[r].id] = StringOf(0))

\* C5 witness: a generation request reserved the only credit, the model API
\* answered 503, and the request has completed.
C5_Witness ==
    \E r \in Reqs :
       /\ pc[r] = "done"
       /\ calls[r].gemini = 1
       /\ resp[r].statusCode = 503
       /\ store0.blobs[user[r].id] = StringOf(1)
       /\ blobs[user[r].id] = StringOf(0)

\* C6: a generation request on an account whose stored balance is 0 is
\* answered 402 {error: "You are out of credits."}, the stored balance
\* stays 0, and the request issues no store write and no upstream call.
C6_Exhausted ==
    \A r \in Reqs :
       (BalanceRead(r) /\ store0.blobs[user[r].id] = StringOf(0))
       => /\ pc[r] = "done"
          /\ resp[r] = [statusCode |-> 402,
                        body |-> [kind |-> "error", error |-> "You are out of credits."]]
          /\ blobs[user[r].id] = StringOf(0)
          /\ calls[r].set = 0
          /\ calls[r].gemini = 0

\* C6 witness: a generation request has read the balance 0 of its account
\* and has been answered.
C6_Witness ==
    \E r \in Reqs :
       /\ BalanceRead(r)
       /\ store0.blobs[user[r].id] = StringOf(0)
       /\ local[r].credits = 0
       /\ resp[r].statusCode = 402

\* C7: Dev bypass containment.  When CONTEXT is not 'dev' (another value or
\* unset), a request presenting 'Bearer dev-token' is never given an
\* identity and, like an invalid credential, ends in 401 (500 only when the
\* identity provider could not be reached).
C7_DevBypassContained ==
    \A r \in Reqs :
       (env.CONTEXT # "dev" /\ event[r].authorization = DevToken)
       => /\ user[r] = NoUser
          /\ pc[r] = "done" => \/ resp[r].statusCode = 401
                               \/ local[r].caught = "userinfo"

\* C8: a request without an Authorization header ends in 401 before any
\* call to the identity provider, the account store or the model API, and
\* before the route is looked at.
C8_MissingHeader ==
    \A r \in Reqs :
       event[r].authorization = NoHeader
       => /\ pc[r] = "done"
          /\ resp[r] = jsonResponse(401, MissingHeaderBody)
          /\ calls[r] = NoCalls
          /\ user[r] = NoUser
          /\ event[r].path = Unread

\* C8 witness: a request without the header has been answered 401.
C8_Witness ==
    \E r \in Reqs :
       /\ event[r].authorization = NoHeader
       /\ resp[r].statusCode = 401

\* C9: the identity resolver of the blobs handler maps each outcome of the
\* /userinfo call to its own result: a thrown call gives 500, a non-2xx
\* answer 401, a 2xx answer lacking a string email or a string sub 400, and
\* only a 2xx answer carrying both yields the user (sub, email).
C9_IdentityResolver ==
    \A r \in Reqs :
       (calls[r].userinfo = 1 /\ pc[r] # "userinfo")
       => LET userInfo == UserInfo(event[r].authorization)
          IN  IF local[r].caught = "userinfo"
              THEN resp[r].statusCode = 500 /\ user[r] = NoUser
              ELSE IF ~userInfo.ok
              THEN resp[r].statusCode = 401 /\ user[r] = NoUser
              ELSE IF userInfo.email.type # "string" \/ userInfo.sub.type # "string"
              THEN resp[r].statusCode = 400 /\ user[r] = NoUser
              ELSE user[r] = [email |-> userInfo.email.val, id |-> userInfo.sub.val]

\* C9 witness: one request failed on an unreachable provider with 500 and
\* another, whose claims lack the subject, was answered 400.
C9_Witness ==
    \E r1, r2 \in Reqs :
       /\ local[r1].caught = "userinfo" /\ resp[r1].statusCode = 500
       /\ event[r2].authorization = NoSubToken /\ resp[r2].statusCode = 400

\* r was answered by the handler itself (not with a relayed upstream answer)
\* with an authentication or a request-validation failure
FailedAuthOrValidation(r) ==
    /\ pc[r] = "done"
    /\ resp[r].body.kind = "error"
    /\ \/ resp[r].statusCode \in {400, 401}
       \/ resp[r].statusCode = 500 /\ local[r].caught \in {"userinfo", "json"}

\* C10: a request that fails authentication or request validation has
\* issued no store write and no upstream call, and the step that answers it
\* leaves both stores unchanged.
C10_FailuresHaveNoEffect ==
    [][\A r \in Reqs :
          FailedAuthOrValidation(r)'
          => /\ calls'[r].set = 0
             /\ calls'[r].gemini = 0
             /\ pc[r] # "done" => blobs' = blobs /\ kv' = kv]_vars

\* C10 witness: an admin add-credits request with an invalid amount has
\* been answered 400.
C10_Witness ==
    \E r \in Reqs :
       /\ event[r].path = "admin/users/add-credits"
       /\ event[r].body.kind = "json"
       /\ event[r].body.email = AliceEmail
       /\ resp[r].statusCode = 400

\* email a and the admin address b are the same address once both are
\* trimmed and lower-cased
SameAddress(a, b) == toLowerCase(trim(Chars(a))) = toLowerCase(trim(Chars(b)))

\* r is an authenticated request routed to an admin route of the kv handler
AdminRouteRequest(r) ==
    /\ gateway = "kv"
    /\ event[r].path # Unread
    /\ startsWithAdmin(event[r].path)

\* C11: an authenticated request to an admin route (list users, add or set
\* credits) whose email is not the admin's is answered 403 Forbidden and
\* issues no store call: no list, no get, no set.
C11_AdminGate ==
    \A r \in Reqs :
       (/\ AdminRouteRequest(r)
        /\ \A a \in ADMIN_USERS : ~SameAddress(user[r].email, a))
       => /\ pc[r] = "done"
          /\ resp[r] = [statusCode |-> 403,
                        body |-> [kind |-> "error",
                                  error |-> "Forbidden: Admin access required."]]
          /\ calls[r].list = 0
          /\ calls[r].get = 0
          /\ calls[r].set = 0

\* C11 witness: a user who is not the admin asked to add credits and was
\* answered 403.
C11_Witness ==
    \E r \in Reqs :
       /\ AdminRouteRequest(r)
       /\ event[r].path = "admin/users/add-credits"
       /\ user[r].email = AliceEmail
       /\ resp[r].statusCode = 403

\* C12: the admin decision of every routed request is the comparison of its
\* email with the admin address, both trimmed and lower-cased: /user-data
\* reports it as isAdmin, and an admin route refuses with 403 exactly the
\* requests for which it is false.
C12_IsAdmin ==
    \A r \in Reqs :
       /\ (/\ BlobsDeployed
           /\ pc[r] = "done"
           /\ resp[r].body.kind = "userData")
          => resp[r].body.isAdmin = SameAddress(user[r].email, ConfiguredAdminEmail)
       /\ (AdminRouteRequest(r) /\ pc[r] = "done")
          => (resp[r].statusCode = 403
                <=> \A a \in ADMIN_USERS : ~SameAddress(user[r].email, a))

\* r reads or writes the balance of account k
Touches(r, k) ==
    IF BlobsDeployed
    THEN /\ user[r].id = k
         /\ event[r].path \in {"/user-data", "/v1beta/models/m:generateContent"}
    ELSE \/ /\ event[r].path = "credits"
            /\ event[r].authorization # DevToken
            /\ user[r].email = k
         \/ /\ event[r].path = "admin/users/add-credits"
            /\ event[r].body.kind = "json"
            /\ event[r].body.email = k

\* r resolves its account: GET /user-data, or GET /credits of the kv handler
Resolves(r) ==
    /\ event[r].httpMethod = "GET"
    /\ event[r].path = (IF BlobsDeployed THEN "/user-data" ELSE "credits")

\* the grant a created account is seeded with
InitialGrant == IF BlobsDeployed THEN INITIAL_CREDITS ELSE KV_INITIAL_CREDITS

\* C13: Idempotent lazy creation.  When the requests on a previously
\* unknown account are all account resolutions (one or several, concurrent)
\* and have all completed without a store failure, the account is stored
\* once with the initial grant and every response reports the initial grant.
C13_IdempotentCreation ==
    \A k \in Accounts :
       LET rs == {r \in Reqs : Touches(r, k)}
       IN  (/\ Absent(Stored0(k))
            /\ rs # {}
            /\ \A r \in rs : /\ Resolves(r)
                             /\ pc[r] = "done"
                             /\ local[r].caught = "none")
           => /\ Stored(k) = StringOf(InitialGrant)
              /\ \A r \in rs : /\ resp[r].statusCode = 200
                               /\ resp[r].body.credits = InitialGrant

\* C13 witness: two resolutions of one unknown account both issued the
\* creating write (neither saw the other's) and both completed.
C13_Witness ==
    \E k \in Accounts :
       /\ Absent(Stored0(k))
       /\ \A r \in Reqs : /\ Touches(r, k) /\ Resolves(r)
                          /\ pc[r] = "done"
                          /\ local[r].caught = "none"
                          /\ calls[r].set = 1

\* C14: a deduction (generation) request that is the first request on a
\* previously unknown account finds or creates the initial grant and is not
\* refused as out of credits.
C14_FirstAccessCreates ==
    \A r \in Reqs :
       (/\ BalanceRead(r)
        /\ Absent(Stored0(Account(r)))
        /\ \A q \in Reqs \ {r} : ~Touches(q, Account(r)))
       => /\ local[r].credits = InitialGrant
          /\ ~Refused(r)

\* the generation request r has completed with the upstream's 200 on an
\* existing account on which every other request is an account resolution
HappyGeneration(r) ==
    /\ BlobsDeployed
    /\ Deducts(r)
    /\ pc[r] = "done"
    /\ resp[r].statusCode = 200
    /\ ~Absent(store0.blobs[user[r].id])
    /\ \A q \in Reqs \ {r} : Touches(q, user[r].id) => Resolves(q)

\* C15: Happy path.  On an existing non-admin account with stored balance
\* n > 0, the step that answers /user-data returns 200 {isAdmin: false,
\* credits: n} and leaves the store as it is; and a generation request
\* that no other writer accompanies and whose upstream call returned 200
\* leaves the stored balance at n - 1 and relays the upstream body.
C15_HappyPath ==
    [][\A r \in Reqs :
          /\ (/\ BlobsDeployed
              /\ pc[r] = "userData.get"
              /\ pc'[r] = "done"
              /\ local'[r].caught = "none"
              /\ ~isAdmin(user[r])
              /\ ~parseIntIsNaN(blobs[user[r].id])
              /\ parseInt(blobs[user[r].id]) > 0)
             => /\ resp'[r] = [statusCode |-> 200,
                               body |-> [kind |-> "userData", isAdmin |-> FALSE,
                                         credits |-> parseInt(blobs[user[r].id])]]
                /\ blobs' = blobs
          /\ HappyGeneration(r)'
             => /\ parseInt(store0.blobs[user[r].id]) > 0
                /\ blobs'[user[r].id] = StringOf(parseInt(store0.blobs[user[r].id]) - 1)
                /\ resp'[r].body = [kind |-> "gemini", text |-> "candidates"]]_vars

\* C15 witness: /user-data reported the balance 1 of a non-admin account and
\* a generation request on it succeeded, leaving 0.
C15_Witness ==
    \E r1, r2 \in Reqs :
       /\ BlobsDeployed
       /\ pc[r1] = "done" /\ event[r1].path = "/user-data"
       /\ resp[r1].statusCode = 200 /\ resp[r1].body.credits = 1
       /\ ~resp[r1].body.isAdmin
       /\ HappyGeneration(r2)
       /\ user[r2].id = user[r1].id
       /\ store0.blobs[user[r2].id] = StringOf(1)
       /\ blobs[user[r2].id] = StringOf(0)

\* the add-credits request r has been acknowledged, on an existing account
\* on which every other request is an account resolution
AddCompleted(r) ==
    /\ gateway = "kv"
    /\ event[r].path = "admin/users/add-credits"
    /\ pc[r] = "done"
    /\ resp[r].statusCode = 200
    /\ local[r].caught = "none"
    /\ ~Absent(store0.kv[event[r].body.email])
    /\ \A q \in Reqs \ {r} : Touches(q, event[r].body.email) => Resolves(q)

\* C16: Admin adjustment.  An acknowledged add-credits {email, amount} on
\* an account at balance b, with no other writer on it, returns
\* {credits: b + amount} and stores b + amount; and the step that answers a
\* balance read (GET /credits) returns the balance stored at that moment,
\* leaving it as it is, so that the next read returns b + amount.
C16_AdminAdjustment ==
    [][\A r \in Reqs :
          /\ AddCompleted(r)'
             => LET k == event'[r].body.email
                    sum == parseInt(store0.kv[k]) + event'[r].body.amount.val
                IN  /\ event'[r].body.amount.val > 0
                    /\ resp'[r].body = [kind |-> "credits", credits |-> sum]
                    /\ kv'[k] = StringOf(sum)
          /\ (/\ gateway = "kv"
              /\ pc[r] = "getOrCreate.get"
              /\ pc'[r] = "done"
              /\ event[r].path = "credits"
              /\ event[r].httpMethod = "GET"
              /\ local'[r].caught = "none")
             => /\ resp'[r] = [statusCode |-> 200,
                               body |-> [kind |-> "credits",
                                         credits |-> parseInt(kv[user[r].email])]]
                /\ kv' = kv]_vars

\* C16 witness: the admin added 1 to an account at balance 1 and the
\* account's next balance read returned 2.
C16_Witness ==
    \E r1, r2 \in Reqs :
       /\ AddCompleted(r1)
       /\ store0.kv[event[r1].body.email] = StringOf(1)
       /\ resp[r1].body.credits = 2
       /\ pc[r2] = "done" /\ Resolves(r2)
       /\ user[r2].email = event[r1].body.email
       /\ local[r2].caught = "none"
       /\ resp[r2].body.credits = 2

\* r is an add-credits request of the admin whose body parsed and names an
\* account, with an amount that is not a positive integer
InvalidAmountRequest(r) ==
    /\ gateway = "kv"
    /\ event[r].path = "admin/users/add-credits"
    /\ event[r].httpMethod = "POST"
    /\ event[r].body.kind = "json"
    /\ event[r].body.email # NoEmail
    /\ \/ event[r].body.amount.type # "number"
       \/ ~event[r].body.amount.isInteger
       \/ event[r].body.amount.val <= 0

\* C17: an admin add-credits request whose amount is not a positive integer
\* (zero, negative, fractional, not a number) is rejected with 400, has
\* issued no store write, and leaves the target balance as it was.
C17_ArgumentValidation ==
    \A r \in Reqs :
       InvalidAmountRequest(r)
       => /\ pc[r] = "done"
          /\ resp[r].statusCode = 400
          /\ calls[r].set = 0
          /\ (\A q \in Reqs \ {r} : calls[q].set = 0)
               => kv[event[r].body.email] = store0.kv[event[r].body.email]

\* a configuration value the deployed handler requires is not set: the
\* API key, the provider domain (the relay handler does not authenticate),
\* and for the blobs handler the admin address (the kv handler carries its
\* admin list in the source)
ConfigMissing ==
    \/ gateway # "relay" /\ ~env.AUTH0_DOMAIN
    \/ ~env.API_KEY
    \/ BlobsDeployed /\ ~env.ADMIN_EMAIL

\* C18: Fail closed on configuration.  When a required configuration value
\* is missing, every request is answered 500 without the handler reading
\* the request, authenticating, or calling the store or the model API, and
\* the stores stay as they were.
C18_FailClosed ==
    ConfigMissing
    => /\ blobs = store0.blobs
       /\ kv = store0.kv
       /\ \A r \in Reqs :
             pc[r] # "idle"
             => /\ pc[r] = "done"
                /\ resp[r].statusCode = 500
                /\ resp[r].body.kind = "error"
                /\ calls[r] = NoCalls
                /\ event[r] = NoEvent
                /\ user[r] = NoUser

\* C18 witness: the blobs handler without ADMIN_EMAIL has answered every
\* request.
C18_Witness ==
    /\ BlobsDeployed
    /\ ~env.ADMIN_EMAIL
    /\ \A r \in Reqs : pc[r] = "done" /\ resp[r].statusCode = 500

\* C19: a generation request whose image payload is not a (mimeType,
\* base64Data) pair is rejected with 400 before the gateway deducts a
\* credit or calls the model API.
C19_MalformedPayloadRejected ==
    \A r \in Reqs :
       (event[r].body.kind = "generate" /\ event[r].body.image = "malformed")
       => /\ calls[r].set = 0
          /\ calls[r].gemini = 0
          /\ pc[r] = "done"
          /\ resp[r].statusCode = 400

\* C20: No retries.  For each request the gateway issues at most one call
\* to the model API, whether that call returned a 2xx, a non-2xx or threw;
\* the call is issued only by a request still in flight and a completed
\* request issues none.
C20_NoRetries ==
    [][\A r \in Reqs :
          /\ calls'[r].gemini <= 1
          /\ pc[r] \in {"generate.fetch", "proxy.fetch", "relay.fetch", "done"}
             => calls'[r].gemini = calls[r].gemini]_vars

\* C20 witness: requests whose single upstream call failed, one with a
\* non-2xx answer and one by throwing, have completed.
C20_Witness ==
    \E r1, r2 \in Reqs :
       /\ pc[r1] = "done" /\ calls[r1].gemini = 1 /\ resp[r1].statusCode = 503
       /\ pc[r2] = "done" /\ calls[r2].gemini = 1 /\ local[r2].caught = "fetch"

\* the characters of a response body that relays the model API's answer
BodyChars(body) ==
    IF body.kind = "gemini" THEN TextChars(body.text)
    ELSE IF body.kind = "reserialised" THEN body.chars
    ELSE <<>>

\* the step answers request r, which was waiting for the model API
AnswersUpstreamCall(r) ==
    /\ pc[r] \in {"generate.fetch", "proxy.fetch", "relay.fetch"}
    /\ pc'[r] = "done"

\* C21: when the model API returns a response, the gateway's response
\* carries the same status code and the same body, for 2xx and non-2xx
\* alike; the gateway's own 500 error body is returned only when the call
\* to the model API itself throws.
C21_UpstreamRelayed ==
    [][\A r \in Reqs :
          AnswersUpstreamCall(r)
          => \/ /\ local'[r].caught = "fetch"
                /\ resp'[r].statusCode = 500
                /\ resp'[r].body.kind = "error"
             \/ /\ local'[r].caught = "none"
                /\ \E g \in GeminiResponses :
                      /\ resp'[r].statusCode = g.status
                      /\ BodyChars(resp'[r].body) = TextChars(g.text)]_vars

\* the step is the creating write of request r on account k
CreatingWrite(r, k) ==
    \/ /\ BlobsDeployed /\ pc[r] = "userData.set" /\ user[r].id = k
    \/ /\ gateway = "kv" /\ pc[r] = "getOrCreate.set" /\ KvKey(r) = k

\* the step is the deducting write of the generation request r on account k
DeductingWrite(r, k) ==
    \/ /\ BlobsDeployed /\ pc[r] = "generate.set" /\ user[r].id = k
    \/ /\ gateway = "kv" /\ pc[r] = "credits.set" /\ user[r].email = k

\* the step is the write of an admin's add-credits request r on account k
AdminWrite(r, k) ==
    /\ gateway = "kv"
    /\ pc[r] = "addCredits.set"
    /\ isAdminOfList(user[r].email)
    /\ event[r].body.email = k

\* C22: a stored balance changes only by (a) the lazy creation of a missing
\* record, (b) the deduction of exactly 1 by a generation request, or (c) an
\* admin's add; every other step leaves every existing record's credits as
\* they are, and no record is ever deleted.
C22_BalanceFrame ==
    [][\A k \in Accounts :
          /\ ~Absent(Stored(k)) => ~Absent(Stored(k)')
          /\ Stored(k)' # Stored(k)
             => \E r \in Reqs :
                   /\ pc'[r] # pc[r]
                   /\ \/ /\ CreatingWrite(r, k)
                         /\ Absent(Stored(k))
                         /\ Stored(k)' = StringOf(InitialGrant)
                      \/ /\ DeductingWrite(r, k)
                         /\ ~Absent(Stored(k))
                         /\ Stored(k)' = StringOf(parseInt(Stored(k)) - 1)
                      \/ /\ AdminWrite(r, k)
                         /\ ~Absent(Stored(k))
                         /\ parseInt(Stored(k)') > parseInt(Stored(k))]_vars

\* a store operation of request r failed: the store was not there, or a
\* get, set or list threw
StoreFailed(r) ==
    /\ pc[r] = "done"
    /\ local[r].caught \in {"store", "unavailable"}

\* C23: a user-data, credit or admin request during which an account-store
\* operation fails is answered 500 with a generic error message: never a
\* 2xx reporting a balance or a deduction, and the body carries no detail of
\* the internal error.
C23_StoreFailureIs500 ==
    \A r \in Reqs :
       StoreFailed(r)
       => /\ resp[r].statusCode = 500
          /\ resp[r].body.kind = "error"
          /\ "details" \notin DOMAIN resp[r].body

\* The blobs handler with its scheduling: a store call that was issued
\* returns and the handler goes on (weak fairness of the store steps).  The
\* code arms no timer and passes no abort signal to its two fetch calls, so
\* nothing obliges the steps that wait for the identity provider and for the
\* model API to happen.
SpecBlobsLive ==
    /\ InitBlobs
    /\ [][BlobsNext]_vars
    /\ \A r \in Reqs : /\ WF_vars(BlobsUserDataGet(r))
                       /\ WF_vars(BlobsUserDataSet(r))
                       /\ WF_vars(BlobsGenerateGet(r))
                       /\ WF_vars(BlobsGenerateSet(r))

\* C24: every request the gateway has started terminates: also when the
\* identity provider or the model API never responds, the request is ended
\* (by a timeout, with a gateway-timeout failure) and does not wait forever.
C24_RequestsTerminate ==
    \A r \in Reqs : (pc[r] # "idle") ~> (pc[r] = "done")

\* the step returns the balance read of the non-admin request r
BalanceReturns(r) ==
    /\ \/ BlobsDeployed /\ pc[r] \in {"userData.get", "generate.get"}
       \/ gateway = "kv" /\ pc[r] = "getOrCreate.get" /\ event[r].path = "credits"
    /\ pc'[r] # pc[r]
    /\ local'[r].caught = "none"

\* C25: requests of non-admin users for different accounts are independent.
\* A step of a user-data or generation (deduction) request authenticated as
\* one identity changes no stored record but that identity's own, and the
\* balance it reads is the one stored under its own identity, whatever the
\* other records hold and however the requests interleave.
C25_AccountsIndependent ==
    [][\A r \in Reqs :
          /\ (pc'[r] # pc[r] /\ ~AdminRouteRequest(r))
             => \A k \in Accounts : Stored(k)' # Stored(k) => k = Account(r)
          /\ BalanceReturns(r)
             => IF Absent(Stored(Account(r)))
                THEN local'[r].credits \in {0, InitialGrant}
                ELSE local'[r].credits = parseInt(Stored(Account(r)))]_vars

\* C25 witness: two requests of different identities have completed, one
\* deducted from its account at balance 1 and the other created its own
\* account with the initial grant; each record holds its own result.
C25_Witness ==
    \E r1, r2 \in Reqs :
       /\ pc[r1] = "done" /\ pc[r2] = "done"
       /\ Reserved(r1) /\ Resolves(r2)
       /\ user[r2] # NoUser
       /\ Account(r1) # Account(r2)
       /\ Stored0(Account(r1)) = StringOf(1)
       /\ Stored(Account(r1)) = StringOf(0)
       /\ Absent(Stored0(Account(r2)))
       /\ Stored(Account(r2)) = StringOf(InitialGrant)

\* r is a completed account resolution of account k that met no store failure
Resolved(r, k) ==
    /\ Touches(r, k)
    /\ Resolves(r)
    /\ pc[r] = "done"
    /\ local[r].caught = "none"

\* C26: the user-data read is idempotent.  Two resolutions of one identity
\* (GET /user-data; GET /credits on the kv handler), with no other request
\* on the store, return the same body both times, and the store is left as
\* one call leaves it: the account holds its balance (the initial grant when
\* the first call created it) and every other record is as it was.
C26_UserDataIdempotent ==
    \A k \in Accounts :
       \A r1, r2 \in Reqs :
          (r1 # r2 /\ Resolved(r1, k) /\ Resolved(r2, k))
          => /\ resp[r1].statusCode = 200
             /\ resp[r1] = resp[r2]
             /\ Stored(k) = (IF Absent(Stored0(k)) THEN StringOf(InitialGrant)
                             ELSE Stored0(k))
             /\ resp[r1].body.credits = parseInt(Stored(k))
             /\ \A j \in Accounts \ {k} : Stored(j) = Stored0(j)

\* C26 witness: a first call created the account with its one write and a
\* second call, which wrote nothing, returned the same balance.
C26_Witness ==
    \E k \in Accounts :
       \E r1, r2 \in Reqs :
          /\ Resolved(r1, k) /\ Resolved(r2, k)
          /\ Absent(Stored0(k))
          /\ calls[r1].set = 1
          /\ calls[r2].set = 0
          /\ resp[r2].body.credits = InitialGrant

\* the text t occurs in the text s
Contains(s, t) ==
    \E i \in 0..(Len(s) - Len(t)) : SubSeq(s, i + 1, i + Len(t)) = t

\* the configured admin address occurs, in whatever letter case, in a text
\* of the /debug-info body
ShowsAdminEmail(body) ==
    LET adminEmail == toLowerCase(trim(Chars(ConfiguredAdminEmail)))
    IN  \/ Contains(toLowerCase(body.envVarValueMasked), adminEmail)
        \/ Contains(toLowerCase(Chars(body.userValue)), adminEmail)

\* r is an answered /debug-info request
DebugInfoAnswered(r) ==
    /\ pc[r] = "done"
    /\ event[r].path = "/debug-info"
    /\ event[r].httpMethod = "GET"

\* C28: /debug-info answers every authenticated caller 200 with matched =
\* (caller's email equals the configured admin email, both trimmed and
\* lower-cased) and with the admin email in masked form only: the body
\* contains the full configured admin email only when the caller's own
\* email is that address.
C28_DebugInfoMasked ==
    \A r \in Reqs :
       DebugInfoAnswered(r)
       => /\ resp[r].statusCode = 200
          /\ resp[r].body.kind = "debugInfo"
          /\ resp[r].body.matched = SameAddress(user[r].email, ConfiguredAdminEmail)
          /\ resp[r].body.envVarValueMasked # Chars(ConfiguredAdminEmail)
          /\ Contains(resp[r].body.envVarValueMasked, <<"@">>)
          /\ ~SameAddress(user[r].email, ConfiguredAdminEmail)
                => ~ShowsAdminEmail(resp[r].body)

\* C28 witness: a caller who is not the admin and the admin, whose address
\* differs from the configured one in letter case and blanks, have both been
\* answered.
C28_Witness ==
    \E r1, r2 \in Reqs :
       /\ DebugInfoAnswered(r1) /\ user[r1].email = AliceEmail
       /\ ~resp[r1].body.matched
       /\ DebugInfoAnswered(r2) /\ user[r2].email = AjEmail
       /\ resp[r2].body.matched

\* r is an admin's GET admin/users that was answered with a list
ListAnswered(r) ==
    /\ gateway = "kv"
    /\ pc[r] = "done"
    /\ event[r].path = "admin/users"
    /\ event[r].httpMethod = "GET"
    /\ resp[r].statusCode = 200

\* the accounts the KV store holds
StoredAccounts == {k \in KvKeys : kv[k] # Null}

\* the list is in ascending order of email, no email twice
Ascending(users) ==
    \A i \in 1..(Len(users) - 1) :
       /\ users[i].email # users[i + 1].email
       /\ localeCompareLeq(Chars(users[i].email), Chars(users[i + 1].email))

\* C29: the admin user list is returned in ascending order of email and
\* holds every stored account exactly once: each element's email is below
\* the next one's, every element is a stored account, every account stored
\* before the run is listed, and when no other request has written to the
\* store the listed emails are exactly the stored accounts.
C29_ListOrdered ==
    \A r \in Reqs :
       ListAnswered(r)
       => LET users == resp[r].body.users
              listed == {users[i].email : i \in 1..Len(users)}
          IN  /\ Ascending(users)
              /\ listed \subseteq StoredAccounts
              /\ {k \in KvKeys : store0.kv[k] # Null} \subseteq listed
              /\ (\A q \in Reqs \ {r} : calls[q].set = 0) => listed = StoredAccounts

\* the same for the lists built from the store (the request met no missing
\* store and no store failure)
C29_ListOrderedFromStore ==
    \A r \in Reqs :
       (ListAnswered(r) /\ local[r].caught = "none")
       => LET users == resp[r].body.users
              listed == {users[i].email : i \in 1..Len(users)}
          IN  /\ Ascending(users)
              /\ listed \subseteq StoredAccounts
              /\ {k \in KvKeys : store0.kv[k] # Null} \subseteq listed
              /\ (\A q \in Reqs \ {r} : calls[q].set = 0) => listed = StoredAccounts

\* the requests that have called the model API on behalf of account k
UpstreamCallers(k) == {r \in Reqs : Account(r) = k /\ calls[r].gemini >= 1}

\* C30: at every moment of a run, the number of calls to the model API made
\* on behalf of an account is at most the credits granted to it: the
\* balance it started the run with (the initial grant for a new account)
\* plus the credits an admin has added, however many requests the user
\* issues concurrently.
C30_CallsWithinGrant ==
    \A k \in Accounts :
       Cardinality(UpstreamCallers(k)) <= StartBalance(k) + SumAdded(NumReqs, k)

(* ------------------------------- C27 ---------------------------------- *)
\* the last fetch of call c settled with a response of this status
Answered(c, status) ==
    /\ client[c].answer.outcome = "response"
    /\ client[c].answer.response.statusCode = status
\* the message call c threw carries this text
Reports(c, text) ==
    \E i \in 1..Len(client[c].error) : client[c].error[i] = text

\* C27: a call of the browser's service whose request the gateway answered
\* 402 throws at once, without another attempt, an error that tells the user
\* they are out of credits; a call whose request was answered 401 throws at
\* once, without another attempt, the authentication failure that asks the
\* user to log out and log back in.
C27_ClientDistinguishes ==
    \A c \in Reqs :
        /\ Answered(c, 402) =>
              /\ client[c].pc = "thrown"
              /\ Reports(c, "You are out of credits.")
        /\ Answered(c, 401) =>
              /\ client[c].pc = "thrown"
              /\ client[c].error = ReLoginMessage


(* ------------------------------- C33 ---------------------------------- *)
callApiCalls == {c \in Reqs : client[c].fn = "callApiWithFetchAndRetry"}
\* the last fetch of call c timed out, failed to connect, or was answered 5xx
RetryCause(c) ==
    \/ client[c].answer.outcome \in {"AbortError", "TypeError"}
    \/ /\ client[c].answer.outcome = "response"
       /\ client[c].answer.response.statusCode \in 500..599

AnsweredIn(c, statuses) ==
    /\ client[c].answer.outcome = "response"
    /\ client[c].answer.response.statusCode \in statuses

\* C34: in callApiWithFetchAndRetry a 5xx answer makes the call throw only
\* on the last attempt (on attempts 1 and 2 it is retried), whatever body the
\* answer carries, and a 4xx answer makes the call throw at once.
C34_ServerErrorsRetried ==
    \A c \in callApiCalls :
        /\ AnsweredIn(c, 500..599) /\ client[c].pc = "thrown" =>
              client[c].attempt = 3
        /\ AnsweredIn(c, 400..499) => client[c].pc = "thrown"


(* ------------------------------- C35 ---------------------------------- *)
\* C35: a call of getOrCreateUserCredits that returned after reading a value
\* that parses as an integer returned that integer and wrote nothing; one
\* that returned after finding the key absent, or holding a value that does
\* not parse, wrote once and returned 3.
C35_GetOrCreate ==
    \A c \in Reqs :
        goc[c].pc = "returned" =>
            IF goc[c].storedValue # Null /\ ~parseIntIsNaN(goc[c].storedValue)
            THEN /\ ~goc[c].nan
                 /\ goc[c].result = parseInt(goc[c].storedValue)
                 /\ goc[c].writes = 0
            ELSE /\ ~goc[c].nan
                 /\ goc[c].result = 3
                 /\ goc[c].writes = 1


(* ------------------------------- C32 ---------------------------------- *)
\* C32: the creating write of a request that found no record leaves the
\* balance as it is when the account holds one by then (another request
\* created it and a deduction or an add changed it): the write does not put
\* the initial grant back.
C32_CreationKeepsBalance ==
    [][\A k \in Accounts : \A r \in Reqs :
          (CreatingWrite(r, k) /\ pc'[r] # pc[r] /\ ~Absent(Stored(k)))
             => Stored(k)' = Stored(k)]_vars


(* ------------------------------- C39 ---------------------------------- *)
\* arguments of maskEmail: a missing value, a value without '@', and
\* addresses with local parts of 0, 2, 3, 4 and 7 characters
MaskInputs ==
    {<<>>, <<"a", "l">>, <<"@", "x">>, Chars(AliceEmail), Chars(DevEmail),
     <<"a", "b", "c", "d", "@", "x", ".", "c", "a">>, Chars(AjEmail)}
HasAt(e) == \E i \in 1..Len(e) : e[i] = "@"
AtIndex(e) == CHOOSE i \in 1..Len(e) : e[i] = "@" /\ \A j \in 1..(i - 1) : e[j] # "@"
\* the mask of address e as the rule words it
MaskedAsRuled(e) ==
    IF e = <<>> \/ ~HasAt(e)
    THEN maskEmail(e) = InvalidMask
    ELSE LET l == SubSeq(e, 1, AtIndex(e) - 1)
             d == SubSeq(e, AtIndex(e) + 1, Len(e))
         IN  /\ Len(l) > 3 =>
                   maskEmail(e) = <<l[1], l[2], ".", ".", ".", l[Len(l)], "@">> \o d
             /\ Len(l) <= 3 => maskEmail(e) = <<"*", "*", "*", "@">> \o d
             /\ l # <<>> => SubSeq(maskEmail(e), 1, Len(l)) # l
\* the console lines of the routing, user-data and generation paths
MaskedLines == {"[AUTH_CHECK]", "Initialized credits", "Error fetching credits",
                "Request blocked", "Credit deducted"}

\* C39: maskEmail returns 'invalid-or-missing-email' for a missing value or
\* one without '@', '***@domain' for a local part of at most 3 characters,
\* and the first 2 characters, '...', the last character and the domain for
\* a longer one, never a text that starts with the full local part; and the
\* email of every console line the gateway wrote on the routing, user-data
\* and generation paths is the mask of the user's address, not the address.
C39_MaskedLogs ==
    /\ \A e \in MaskInputs : MaskedAsRuled(e)
    /\ \A r \in Reqs : \A l \in local[r].logged :
          /\ l.line \in MaskedLines
          /\ l.email # Chars(user[r].email)
          /\ MaskedAsRuled(Chars(user[r].email))
          /\ LET localPart == UpToAt(Chars(user[r].email))
             IN  SubSeq(l.email, 1, Len(localPart)) # localPart
\* a user-data request of ajbatac@gmail.com that logged its routing and the
\* new account, and a generation request of al@x.ca that logged its deduction
C39_Witness ==
    \E r, q \in Reqs :
        /\ user[r].email = AjEmail
        /\ {l.line : l \in local[r].logged} = {"[AUTH_CHECK]", "Initialized credits"}
        /\ \A l \in local[r].logged :
              l.email = <<"a", "j", ".", ".", ".", "c", "@", "g", "m", "a", "i", "l",
                          ".", "c", "o", "m">>
        /\ user[q].email = AliceEmail
        /\ [line |-> "Credit deducted", email |-> <<"*", "*", "*", "@", "x", ".", "c", "a">>]
              \in local[q].logged

(* ------------------------------ C40 ---------------------------------- *)
\* a step in which a consumer calls deductCredit
DeductStep == session'.deducts = session.deducts + 1
\* C40: the displayed credits of the UserProvider is never negative, a
\* deductCredit call leaves a null balance null and takes a known balance n
\* to max(0, n - 1) (under the dev hook it leaves the display alone)
C40_DeductKeepsValid ==
    [][/\ session'.credits = Unknown \/ session'.credits[1] >= 0
       /\ DeductStep =>
             IF session.credits = Unknown THEN session'.credits = Unknown
             ELSE IF session.isMock THEN session'.credits = session.credits
             ELSE /\ session'.credits # Unknown
                  /\ session'.credits[1] = IF session.credits[1] = 0 THEN 0
                                           ELSE session.credits[1] - 1]_vars
\* deductCredit was called twice under the real auth hook and the display
\* stands at 0
C40_Witness ==
    /\ session.variant = "part_001" /\ ~session.isMock
    /\ session.deducts = MaxDeducts
    /\ session.credits = <<0>>

(* ------------------------------ C37 ---------------------------------- *)
\* C37: isLoading is true exactly when status is 'pending' or 'loading',
\* and once the auth hook is not loading, status eventually becomes
\* 'success' or 'error' (every token call and user-data fetch settling)
C37_SessionSettles ==
    /\ [](isLoading <=> session.status \in {"pending", "loading"})
    /\ (~session.authLoading) ~> (session.status \in {"success", "error"})

(* ------------------------------ C38 ---------------------------------- *)
\* the initial run of the effect is awaiting its token or its user data
InitialRunInFlight == session.chains.verifyToken + session.chains.verifyFetch > 0
\* C38: in the UserProvider of part_001 and part_000 under the real auth
\* hook, isAdmin is true only after a user-data fetch succeeded with isAdmin
\* true; when the auth hook has settled without a session (and no initial
\* run is in flight), isAdmin is false, credits is null and status is
\* 'success'; when the initial fetch of a signed-in user failed, isAdmin is
\* false, credits is null and status is 'error'
C38_AdminFailsSafe ==
    (gateway = "provider" /\ ~session.isMock /\ session.variant \in {"part_001", "part_000"})
      => /\ session.isAdmin => session.adminFetched
         /\ (~session.authLoading /\ ~session.isAuthenticated /\ ~InitialRunInFlight)
               => /\ ~session.isAdmin
                  /\ session.credits = Unknown
                  /\ session.status = "success"
         /\ (session.isAuthenticated /\ session.initialFailed)
               => /\ ~session.isAdmin
                  /\ session.credits = Unknown
                  /\ session.status = "error"

(* ------------------------------ C31 ---------------------------------- *)
\* the invocations that served the fetches of call c and wrote a deduction
ChargedBy(c) == {r \in client[c].served : Reserved(r)}
\* C31: one generateStyledImage call, every retry of
\* callApiWithFetchAndRetry included, makes the gateway write at most one
\* deduction
C31_OneDeductionPerCall ==
    \A c \in Reqs : Cardinality(ChargedBy(c)) <= 1

(* ------------------------------ C36 ---------------------------------- *)
\* the invocations that gave the page an image of the current upload and
\* wrote a deduction for it
ChargedForUpload == {r \in app.generated : Reserved(r)}
\* C36: of the generations and regenerations that gave an image from one
\* uploaded photo, at most one made the gateway write a deduction
C36_OneChargePerUpload ==
    (gateway = "page" /\ app.uploadedImage) => Cardinality(ChargedForUpload) <= 1
====
